---- MODULE Spec2Model ----
(***************************************************************************)
(* A model of @tectonica/vm: the VMManager lifecycle (packages/vm/src/vm.ts)*)
(* and the Marshaller that moves values between the host and the QuickJS    *)
(* sandbox (the marshal.ts revision with identity tags, unnamed/part_007).  *)
(*                                                                          *)
(* Several specifications share the module.  VMSpec is the lifecycle:      *)
(* init, teardown, awaitReady, eval and scopedEval, with the host's promise *)
(* jobs (microtasks) and timers made explicit, because awaitReady is built  *)
(* from them.  MarshalSpec is the marshaller on a ready sandbox; the other  *)
(* marshaller, evaluation and promise specifications start from the same    *)
(* state.  ManagerSpec is AbstractManager of packages/manager and            *)
(* StoreSpec is StateStore of packages/store.                                *)
(***************************************************************************)
EXTENDS Integers, Sequences, FiniteSets, TLC

(***************************************************************************)
(* Bounds of the lifecycle model.                                           *)
(***************************************************************************)
MaxInits == 2
MaxCallers == 2

\* Bound of the marshaller model: the operations made
MaxOps == 3

\* Bound of the evaluation model: the eval, scopedEval and registerVMGlobal calls made
MaxRuns == 3

\* the sandbox globals and host variables of the marshaller model
Globals == {"g1"}
HostVars == {"h1"}

Callers == 1..MaxCallers

VARIABLES
  ready,          \* VMManager.ready
  module,         \* VMManager.module : 0 is undefined, n the module of the n-th init
  runtime,        \* VMManager.runtime: 0 is undefined, n the runtime of the n-th init
  vm,             \* VMManager.vm     : 0 is undefined, n the context of the n-th init
  marshallerVm,   \* Marshaller.vm    : 0 is undefined, n the isolated context of the n-th init
  ctxAlive,       \* the contexts (of VMManager.vm) that are alive
  isoAlive,       \* the isolated contexts (of Marshaller.vm) that are alive
  rtAlive,        \* the runtimes that are alive
  readyPromise,   \* VMManager._readyPromise: 0 is undefined, c the promise made by caller c
  fulfilled,      \* the ready promises that have been resolved
  reactions,      \* per ready promise, the reactions registered on it, in order
  microtasks,     \* the host's promise job queue
  timers,         \* pending setTimeout(..., 0) callbacks of readyResolve
  initPc,         \* "idle", or "loading": init awaits the engine module
  initCount,      \* init calls made so far
  callers,        \* the awaitReady calls: whether teardown followed the call, and
                  \* what the continuation saw
  lastTeardown,   \* outcome of the latest teardown call
  lastEval,       \* outcome of the latest eval / scopedEval call
  completedSince, \* history: an init completed since construction or the last teardown
  tornDown,       \* history: teardown was called and init was not called since
  everReady,      \* history: readiness was signalled at least once
  valueCache,     \* Marshaller.valueCache: CacheId -> host value
  hostTag,        \* the hostCacheIdSymbol own property of host objects
  cacheIdMap,     \* Marshaller.cacheIdMap (WeakMap): host value -> CacheId
  hostProps,      \* the own properties of host objects
  vmValueCache,   \* __valueCache of the sandbox: CacheId -> sandbox value
  vmTag,          \* the __vmCacheSymbol own property of sandbox objects
  vmCacheIdMap,   \* __cacheIdMap of the sandbox (WeakMap)
  vmProps,        \* the own properties of sandbox objects
  nextId,         \* ids generated so far
  nextObj,        \* Proxy objects, wrappers and promises created so far
  callCount,      \* the host counter incremented by increment
  vmCallCount,    \* __callCount of the sandbox, incremented by __increment
  global,         \* sandbox globals holding values the host marshalled
  globalOrigin,   \* history: the host value each global was marshalled from
  held,           \* host variables holding values the host unmarshalled
  heldOrigin,     \* history: the sandbox value each host variable came from
  lastOp,         \* history: the latest marshaller operation and its outcome
  firstId,        \* history: the CacheId each host value was first serialized with
  written,        \* history: the value last assigned to k through a proxy, per origin
  ops,            \* marshaller operations made so far
  globalProps,    \* the properties of the sandbox's global object, by name
  lexicals,       \* the sandbox's global lexical declarations (const, let), by name
  lastRun,        \* history: the latest eval / scopedEval / registerVMGlobal call
  runs,           \* such calls made so far
  hostP,          \* the host promise H: its state and its value or reason
  vmP,            \* the sandbox promise made for H by __getCachedPromise
  vmQ,            \* the sandbox promise Q
  hostQ,          \* the host promise made for Q by _getVMCachedPromise
  listening,      \* whether sandbox code attached its callbacks to vmP, and when
  counters,       \* __counters of the sandbox: the callbacks that ran
  hostJobs,       \* the host's promise jobs of the bridge, in order
  vmJobs,         \* the engine's pending jobs, in order
  bridge,         \* the contexts the promise bridges belong to, and history: what
                  \* their callbacks acted on
  emitter,        \* AbstractManager._emitter: per event name, its listeners in order
  filteredListenersMap, \* AbstractManager.filteredListenersMap
  nextFilter,     \* filter closures created so far by getFilteredListener
  lastEmit,       \* history: the latest emission and the listeners it invoked, in order
  registrations,  \* history: per event, key and listener, the on() calls not yet taken back
  managerOps,     \* on / onGlobal / off / offGlobal / teardown calls made so far
  _data,          \* StateStore._data: the keys in insertion order, each with its subject
  _changeSubject, \* StateStore._changeSubject: its current value
  plainMap,       \* history: a Map given the operations the store was given
  received,       \* the latest aggregate a watchAll() subscriber has received
  debouncing,     \* whether the debounce timer of that subscription is pending
  storeOps        \* set / delete / clear calls made so far

vmVars == <<ready, module, runtime, vm, marshallerVm, ctxAlive, isoAlive, rtAlive,
            readyPromise, fulfilled, reactions, microtasks, timers, initPc,
            initCount, callers, lastTeardown, lastEval, completedSince, tornDown,
            everReady>>

mVars == <<valueCache, hostTag, cacheIdMap, hostProps, vmValueCache, vmTag,
           vmCacheIdMap, vmProps, nextId, nextObj, callCount, vmCallCount, global,
           globalOrigin, held, heldOrigin, lastOp, firstId, written, ops>>

eVars == <<globalProps, lexicals, lastRun, runs>>

pVars == <<hostP, vmP, vmQ, hostQ, listening, counters, hostJobs, vmJobs, bridge>>

\* the packages beside the VM: @tectonica/manager and @tectonica/store
gVars == <<emitter, filteredListenersMap, nextFilter, lastEmit, registrations, managerOps>>
sVars == <<_data, _changeSubject, plainMap, received, debouncing, storeOps>>
kVars == <<gVars, sVars>>

vars == <<vmVars, mVars, eVars, pVars, kVars>>

(***************************************************************************)
(* The Marshaller (unnamed/part_007:13-1012).                               *)
(*                                                                          *)
(* Values are records tagged by t.  Primitives, Dates and arrays are        *)
(* values.  Objects, functions and promises are references: "hobj" and      *)
(* "hpromise" live on the host, "vobj", "vwrap" and "vpromise" in the       *)
(* sandbox.  "hproxy" is a host Proxy made by _createVMProxy, "vproxy" a    *)
(* sandbox Proxy made by __createVMProxy; n tells two Proxy objects apart.  *)
(* JSON text is modelled by its parse tree (the wire values below);         *)
(* strings are taken free of JSON metacharacters and Dates valid.           *)
(***************************************************************************)
Undefined == [t |-> "undefined"]
Null == [t |-> "null"]
Str(s) == [t |-> "string", v |-> s]
Num(n) == [t |-> "number", v |-> n, nan |-> FALSE]
NaN == [t |-> "number", v |-> 0, nan |-> TRUE]
Bool(b) == [t |-> "boolean", v |-> b]
BigInt(n) == [t |-> "bigint", v |-> n]
Sym(key, registered) == [t |-> "symbol", v |-> key, reg |-> registered]
Date(ms) == [t |-> "date", v |-> ms]
Arr(elems) == [t |-> "array", e |-> elems]
HObj(name) == [t |-> "hobj", id |-> name]
VObj(name) == [t |-> "vobj", id |-> name]
Absent == [t |-> "absent"]
Error(name) == [t |-> "error", v |-> name]

\* The host objects of the model.  frozenObj is Object.freeze({k: 0});
\* increment is `function increment() { return ++callCount }` of
\* part_006:141-143; hostPromise is a native Promise; thrower is a function
\* that throws an Error.
HostObjs == {"hObjectProto", "hFunctionProto", "hostObj", "hostObj2", "frozenObj",
             "increment", "hostPromise", "contextVars", "thrower", "method", "made",
             "Object", "Function"}

HostKind ==
  [o \in HostObjs |-> IF o \in {"increment", "hFunctionProto", "thrower", "method",
                                 "Object", "Function"}
                        THEN "function" ELSE "object"]

\* Object.getPrototypeOf on the host ("" is null); Promise.prototype is left out
HostProto ==
  [o \in HostObjs |-> CASE o = "hObjectProto" -> ""
                        [] o \in {"increment", "thrower", "method", "Object", "Function"}
                             -> "hFunctionProto"
                        [] OTHER -> "hObjectProto"]

\* The sandbox objects of the model.  __increment is `() => ++__callCount` of
\* part_006:167-169; globalThis is the global object of the user context.
\* The helpers run in the Marshaller's isolated context, whose own base
\* prototypes are isoObjectProto and isoFunctionProto.
VmObjs == {"vObjectProto", "vFunctionProto", "isoObjectProto", "isoFunctionProto",
           "vmObj", "vmObj2", "__increment", "globalThis", "vmPromise", "__method",
           "__made", "vmRecord", "vmFixed"}

VmKind ==
  [o \in VmObjs |-> IF o \in {"__increment", "vFunctionProto", "isoFunctionProto",
                               "__method"}
                      THEN "function" ELSE "object"]

VmProto ==
  [o \in VmObjs |-> CASE o \in {"vObjectProto", "isoObjectProto"} -> ""
                      [] o \in {"__increment", "__method"} -> "vFunctionProto"
                      [] o = "isoFunctionProto" -> "isoObjectProto"
                      [] OTHER -> "vObjectProto"]

\* typeof
TypeOf(x) ==
  CASE x.t \in {"undefined", "string", "number", "boolean", "bigint", "symbol"} -> x.t
    [] x.t = "hobj" -> HostKind[x.id]
    [] x.t = "vobj" -> VmKind[x.id]
    [] x.t \in {"hproxy", "vproxy"} -> IF x.fn THEN "function" ELSE "object"
    [] x.t = "vwrap" -> "function"
    [] OTHER -> "object"

\* IsConstructor of the language: functions declared with `function`
\* (increment of part_006:141, method, __method) and the Proxies of a
\* `function base() {}` (part_007:201, 745); arrow functions such as
\* __increment and thrower, and everything that is not a function, are not
IsConstructor(x) ==
  CASE x.t \in {"hobj", "vobj"} -> x \in {HObj("increment"), HObj("method"), VObj("__method")}
    [] x.t \in {"hproxy", "vproxy"} -> x.fn
    [] OTHER -> FALSE

\* value instanceof Promise, or an object whose then is a function
IsThenable(x) ==
  x.t \in {"hpromise", "vpromise"} \/ x \in {HObj("hostPromise"), VObj("vmPromise")}

\* Object.getPrototypeOf(x) for a non-proxy object; Null at the end of the chain
ProtoOf(x) ==
  CASE x.t = "hobj" -> IF HostProto[x.id] = "" THEN Null ELSE HObj(HostProto[x.id])
    [] x.t = "vobj" -> IF VmProto[x.id] = "" THEN Null ELSE VObj(VmProto[x.id])
    [] x.t \in {"hpromise"} -> HObj("hObjectProto")
    [] x.t = "vwrap" -> VObj("isoFunctionProto")
    [] x.t = "vpromise" -> VObj("isoObjectProto")
    [] OTHER -> Null

\* Object.isExtensible(x) for a non-proxy object
IsExtensible(x) == x # HObj("frozenObj")

(***************************************************************************)
(* The state the marshalling code reads and writes, as one record, so that *)
(* the operators below can pass it along the calls they make.  Each         *)
(* operator returns [s, ok, v]: the state after it, whether it returned     *)
(* (ok) or threw, and its result (or the error thrown).                     *)
(***************************************************************************)
Ret(s, v) == [s |-> s, ok |-> TRUE, v |-> v]
Throw(s, e) == [s |-> s, ok |-> FALSE, v |-> Error(e)]

\* engine handles: s.live counts the handles created during the call in
\* progress and not yet released.  vm.null, vm.undefined, vm.true and
\* vm.false are constants of the context: they are not created and need no
\* release
Acquire(s, n) == [s EXCEPT !.live = @ + n]
Release(s, n) == [s EXCEPT !.live = @ - n]

\* a call that returns a handle: own is 1 when the handle was created for
\* the caller, who has to release it, and 0 for a constant
RetHandle(s, v, own) == [s |-> s, ok |-> TRUE, v |-> v, own |-> own]

\* r, then K on what r gave: a call's result handed to the code after it
Then(r, K(_)) == CHOOSE out \in {K(x) : x \in {r}} : TRUE

\* the same, unless r threw: the exception propagates
Try(r, K(_)) == CHOOSE out \in {IF x.ok THEN K(x) ELSE x : x \in {r}} : TRUE

\* Map.prototype.get / WeakMap.prototype.get: 0 or Undefined when missing
MapGet(map, key) == IF key \in DOMAIN map THEN map[key] ELSE Undefined
IdGet(map, key) == IF key \in DOMAIN map THEN map[key] ELSE 0
MapSet(map, key, val) == (key :> val) @@ map

\* utils.generateRandomId (part_007:3-7), taken never to repeat an id: ids
\* are numbered in the order they are first used
generateRandomId(s) == s.nextId + 1

\* value[sym] for an identity-tag symbol: the own property, else the
\* prototype chain's (0 is undefined)
RECURSIVE LookupTag(_, _)
LookupTag(tags, x) ==
  IF x = Null THEN 0
  ELSE IF IdGet(tags, x) # 0 THEN IdGet(tags, x)
  ELSE LookupTag(tags, ProtoOf(x))

\* obj[key] for a non-proxy object: the own property, else the prototype chain's
RECURSIVE GetProp(_, _, _)
GetProp(props, obj, key) ==
  IF obj = Null THEN Undefined
  ELSE IF obj \in DOMAIN props /\ props[obj][key] # Absent THEN props[obj][key]
  ELSE GetProp(props, ProtoOf(obj), key)

\* the property keys of the model
Keys == {"k", "a", "b", "f", "o", "then", "constructor"}

\* obj[key] = val on an extensible non-proxy object
SetProp(props, obj, key, val) ==
  MapSet(props, obj, [kk \in Keys |-> IF kk = key THEN val
                                     ELSE IF obj \in DOMAIN props THEN props[obj][kk]
                                     ELSE Absent])

\* JavaScript truthiness of the values the code tests
Truthy(x) ==
  CASE x.t \in {"undefined", "null"} -> FALSE
    [] x.t = "boolean" -> x.v
    [] x.t = "number" -> ~x.nan /\ x.v # 0
    [] OTHER -> TRUE

\* a CacheId held in a string, as the helpers pass parentCacheId around
IdStr(id) == [t |-> "string", cid |-> id]

\* Wire values: the parse tree of the serialized JSON text
WJson(v) == [w |-> "json", v |-> v]
WNull == [w |-> "null"]
WArray(elems) == [w |-> "array", e |-> elems]
Tagged(type, id, num, str, parent) ==
  [w |-> "tagged", type |-> type, id |-> id, num |-> num, str |-> str, parent |-> parent]

\* JSON.stringify of a string, number or boolean: NaN is written as null
JSONstringify(x) == IF x.t = "number" /\ x.nan THEN WNull ELSE WJson(x)

PRIMITIVE_TYPES == {"string", "boolean", "number"}

\* Marshaller.getCacheId (part_007:243-246), for a value that is not null
getCacheId(s, value) ==
  Then(LookupTag(s.hostTag, value),
       LAMBDA tag : IF tag # 0 THEN tag ELSE IdGet(s.cacheIdMap, value))

\* _cacheValue without its valueCache.set: the value is tagged but the host
\* cache does not hold it
_cacheValueNoStore(s, cacheId, value) ==
  IF IsExtensible(value)
    THEN [s EXCEPT !.hostTag = MapSet(@, value, cacheId)]
    ELSE [s EXCEPT !.cacheIdMap = MapSet(@, value, cacheId)]

\* Marshaller._cacheValue (part_007:229-241): the tag is written as an own
\* property; on a non-extensible value the write throws (strict mode) and
\* the id goes to cacheIdMap
_cacheValue(s, cacheId, value) ==
  IF IsExtensible(value)
    THEN [s EXCEPT !.valueCache = MapSet(@, cacheId, value),
                   !.hostTag = MapSet(@, value, cacheId)]
    ELSE [s EXCEPT !.valueCache = MapSet(@, cacheId, value),
                   !.cacheIdMap = MapSet(@, value, cacheId)]

\* Marshaller.serializeJSValue (part_007:115-161).  Line 133 reads
\* getCacheId(value) before line 135 tests for null, so null throws a
\* TypeError there.  An id generated for a Date or an array is discarded.
\* 'then' in value (part_007:145), for a host object whose own properties
\* the model keeps
HasThen(s, value) ==
  /\ value \in DOMAIN s.hostProps
  /\ s.hostProps[value]["then"] # Absent

RECURSIVE serializeJSValue(_, _, _)
RECURSIVE serializeChildren(_, _, _)
serializeJSValue(s, value, parentCacheId) ==
  LET valueType == TypeOf(value) IN
  IF valueType \in PRIMITIVE_TYPES THEN Ret(s, JSONstringify(value))
  ELSE IF valueType = "undefined" THEN Ret(s, Tagged("undefined", 0, 0, "", 0))
  ELSE IF valueType = "bigint" THEN Ret(s, Tagged("bigint", 0, value.v, "", 0))
  ELSE IF valueType = "symbol" THEN Ret(s, Tagged("symbol", 0, 0, value.v, 0))
  ELSE IF value.t = "hproxy" THEN Ret(s, Tagged("vmcache", value.cid, 0, "", 0))
  ELSE IF value.t = "null" THEN Throw(s, "TypeError")
  ELSE IF value.t = "date" THEN Ret(s, Tagged("date", 0, value.v, "", 0))
  ELSE IF value.t = "array"
    THEN Try(serializeChildren(s, value.e, <<>>), LAMBDA r : Ret(r.s, WArray(r.v)))
  ELSE
    Then(getCacheId(s, value), LAMBDA known :
      Then(IF known # 0 THEN known ELSE generateRandomId(s), LAMBDA valueId :
        Ret(_cacheValue([s EXCEPT !.nextId = IF known # 0 THEN @ ELSE valueId],
                        valueId, value),
            IF valueType = "object"
              THEN IF IsThenable(value) \/ HasThen(s, value)
                     THEN Tagged("promise", valueId, 0, "", 0)
                     ELSE Tagged("object", valueId, 0, "", 0)
              ELSE Tagged("function", valueId, 0, "", parentCacheId))))

\* value.map((child) => this.serializeJSValue(child, tkn).serialized)
serializeChildren(s, children, acc) ==
  IF children = <<>> THEN Ret(s, acc)
  ELSE Try(serializeJSValue(s, Head(children), 0),
           LAMBDA r : serializeChildren(r.s, Tail(children), Append(acc, r.v)))

\* Marshaller._createVMProxy (part_007:248-293): a new host Proxy bound to
\* cacheId; fn tells whether its base is a function
_createVMProxy(s, fn, cacheId, parentId) ==
  Ret([s EXCEPT !.nextObj = @ + 1],
      [t |-> "hproxy", cid |-> cacheId, fn |-> fn, parent |-> parentId,
       n |-> s.nextObj + 1])

\* Marshaller._getVMCachedPromise (part_007:295-308) with
\* __vmCachedPromiseGetter (part_007:331-339): a new host promise that
\* follows the sandbox promise cached under cacheId
_getVMCachedPromise(s, cacheId) ==
  IF ~IsThenable(MapGet(s.vmValueCache, cacheId)) THEN Throw(s, "Error")
  ELSE Ret([s EXCEPT !.nextObj = @ + 1],
           [t |-> "hpromise", cid |-> cacheId, n |-> s.nextObj + 1])

\* Marshaller.deserializeVMValue (part_007:163-227).  Neither serializer
\* writes an object without the token, so the "regular object" branch is
\* not reached.
RECURSIVE deserializeVMValue(_, _, _)
RECURSIVE deserializeChildren(_, _, _)
deserializeVMValue(s, val, parentCacheId) ==
  CASE val.w = "null" -> Ret(s, Null)
    [] val.w = "array" ->
         Try(deserializeChildren(s, val.e, <<>>), LAMBDA r : Ret(r.s, Arr(r.v)))
    [] val.w = "tagged" ->
         CASE val.type = "undefined" -> Ret(s, Undefined)
           [] val.type = "null" -> Ret(s, Null)
           [] val.type = "bigint" -> Ret(s, BigInt(val.num))
           [] val.type = "symbol" -> Ret(s, Sym(val.str, TRUE))
           [] val.type = "date" -> Ret(s, Date(val.num))
           [] val.type = "promise" -> _getVMCachedPromise(s, val.id)
           [] val.type = "function" ->
                _createVMProxy(s, TRUE, val.id,
                               IF val.parent # 0 THEN val.parent ELSE parentCacheId)
           [] val.type = "object" -> _createVMProxy(s, FALSE, val.id, 0)
           [] val.type = "hostcache" -> Ret(s, MapGet(s.valueCache, val.id))
           [] OTHER -> _createVMProxy(s, FALSE, val.id, 0)
    [] OTHER -> Ret(s, val.v)

\* for (const child of val) parsedVal.push(this.deserializeVMValue(child, token, false))
deserializeChildren(s, children, acc) ==
  IF children = <<>> THEN Ret(s, acc)
  ELSE Try(deserializeVMValue(s, Head(children), 0),
           LAMBDA r : deserializeChildren(r.s, Tail(children), Append(acc, r.v)))

\* __getCacheId (part_007:315): value?.[__vmCacheSymbol] ?? __cacheIdMap.get(value)
__getCacheId(s, value) ==
  Then(LookupTag(s.vmTag, value),
       LAMBDA tag : IF tag # 0 THEN tag ELSE IdGet(s.vmCacheIdMap, value))

\* __cacheValue (part_007:318-327).  The helper is sloppy-mode code: on a
\* non-extensible value the write of the tag does nothing and does not throw.
__cacheValue(s, cacheId, value) ==
  IF IsExtensible(value)
    THEN [s EXCEPT !.vmValueCache = MapSet(@, cacheId, value),
                   !.vmTag = MapSet(@, value, cacheId)]
    ELSE [s EXCEPT !.vmValueCache = MapSet(@, cacheId, value)]

\* __unmarshalValue (part_007:776-822): the sandbox-side serializer
RECURSIVE __unmarshalValue(_, _, _)
RECURSIVE __unmarshalChildren(_, _, _)
__unmarshalValue(s, value, parentCacheId) ==
  LET valueType == TypeOf(value) IN
  IF valueType \in {"string", "number", "boolean"} THEN Ret(s, JSONstringify(value))
  ELSE IF valueType = "undefined" THEN Ret(s, Tagged("undefined", 0, 0, "", 0))
  ELSE IF valueType = "bigint" THEN Ret(s, Tagged("bigint", 0, value.v, "", 0))
  ELSE IF valueType = "symbol" THEN Ret(s, Tagged("symbol", 0, 0, value.v, 0))
  ELSE IF value.t = "vproxy" THEN Ret(s, Tagged("hostcache", value.cid, 0, "", 0))
  ELSE IF value.t = "null" THEN Ret(s, WNull)
  ELSE IF value.t = "date" THEN Ret(s, Tagged("date", 0, value.v, "", 0))
  ELSE IF value.t = "array"
    THEN Try(__unmarshalChildren(s, value.e, <<>>), LAMBDA r : Ret(r.s, WArray(r.v)))
  ELSE
    Then(__getCacheId(s, value), LAMBDA known :
      Then(IF known # 0 THEN known ELSE generateRandomId(s), LAMBDA valueId :
        Ret(__cacheValue([s EXCEPT !.nextId = IF known # 0 THEN @ ELSE valueId],
                         valueId, value),
            IF valueType = "object"
              THEN IF IsThenable(value)
                     THEN Tagged("promise", valueId, 0, "", 0)
                     ELSE Tagged("object", valueId, 0, "", 0)
              ELSE Tagged("function", valueId, 0, "", parentCacheId))))

\* value.map((child) => __unmarshalValue(child, tkn).serialized)
__unmarshalChildren(s, children, acc) ==
  IF children = <<>> THEN Ret(s, acc)
  ELSE Try(__unmarshalValue(s, Head(children), 0),
           LAMBDA r : __unmarshalChildren(r.s, Tail(children), Append(acc, r.v)))

\* __createVMProxy (part_007:655-702): a new sandbox Proxy bound to cacheId
__createVMProxy(s, fn, cacheId, parentCacheId) ==
  Ret([s EXCEPT !.nextObj = @ + 1],
      [t |-> "vproxy", cid |-> cacheId, fn |-> fn, parent |-> parentCacheId,
       n |-> s.nextObj + 1])

\* __getCachedPromise (part_007:499-522): a new sandbox promise that follows
\* the host promise cached under cacheId
__getCachedPromise(s, cacheId) ==
  IF ~Truthy(MapGet(s.valueCache, cacheId)) THEN Throw(s, "Error")
  ELSE IF ~IsThenable(MapGet(s.valueCache, cacheId)) THEN Throw(s, "TypeError")
  ELSE Ret([s EXCEPT !.nextObj = @ + 1],
           [t |-> "vpromise", cid |-> cacheId, n |-> s.nextObj + 1])

\* __marshalValue (part_007:705-773): the sandbox-side deserializer
RECURSIVE __marshalValue(_, _, _)
RECURSIVE __marshalChildren(_, _, _)
__marshalValue(s, val, parentCacheId) ==
  CASE val.w = "null" -> Ret(s, Null)
    [] val.w = "array" ->
         Try(__marshalChildren(s, val.e, <<>>), LAMBDA r : Ret(r.s, Arr(r.v)))
    [] val.w = "tagged" ->
         CASE val.type = "undefined" -> Ret(s, Undefined)
           [] val.type = "null" -> Ret(s, Null)
           [] val.type = "bigint" -> Ret(s, BigInt(val.num))
           [] val.type = "symbol" -> Ret(s, Sym(val.str, TRUE))
           [] val.type = "date" -> Ret(s, Date(val.num))
           [] val.type = "promise" -> __getCachedPromise(s, val.id)
           [] val.type = "function" ->
                __createVMProxy(s, TRUE, val.id,
                                IF val.parent # 0 THEN val.parent ELSE parentCacheId)
           [] val.type = "object" -> __createVMProxy(s, FALSE, val.id, 0)
           [] val.type = "vmcache" -> Ret(s, MapGet(s.vmValueCache, val.id))
           [] OTHER -> __createVMProxy(s, FALSE, val.id, 0)
    [] OTHER -> Ret(s, val.v)

\* for (const child of val) parsedVal.push(__marshalValue(child, token, false))
__marshalChildren(s, children, acc) ==
  IF children = <<>> THEN Ret(s, acc)
  ELSE Try(__marshalValue(s, Head(children), 0),
           LAMBDA r : __marshalChildren(r.s, Tail(children), Append(acc, r.v)))

\* Marshaller.marshal (part_007:59-93): null, undefined, strings, numbers,
\* booleans and bigints become sandbox values directly, a symbol becomes
\* Symbol.for(description); everything else is serialized and handed to
\* __marshalValue
\* The handles marshalerHandle, serialHandle and tokenHandle are managed by
\* a Scope that is disposed after the call of __marshalValue (line 91): when
\* the call throws, line 91 is not reached
marshal(s, value, parentCacheId) ==
  IF value.t \in {"null", "undefined", "boolean"} THEN RetHandle(s, value, 0)
  ELSE IF value.t \in {"string", "number", "bigint"} THEN RetHandle(Acquire(s, 1), value, 1)
  ELSE IF value.t = "symbol" THEN RetHandle(Acquire(s, 1), Sym(value.v, TRUE), 1)
  ELSE Try(serializeJSValue(s, value, parentCacheId), LAMBDA ser :
         Try(__marshalValue(Acquire(ser.s, 3), ser.v, 0), LAMBDA handle :
           RetHandle(Acquire(Release(handle.s, 3), 1), handle.v, 1)))

\* Marshaller.unmarshal (part_007:95-113): undefined, strings and numbers are
\* read directly; everything else goes through __unmarshalValue and
\* deserializeVMValue
unmarshal(s, handle) ==
  IF TypeOf(handle) \in {"undefined", "string", "number"} THEN Ret(s, handle)
  ELSE Try(__unmarshalValue(s, handle, 0),
           LAMBDA ser : deserializeVMValue(ser.s, ser.v, 0))

\* The origin functions on the host: increment counts its calls and returns
\* the count (part_006:140-143); method is a `function () {}` that is the
\* value of a property; Function.prototype returns undefined.  that records
\* the this value the function was called with.
HostOriginApply(s, f, thisArg, args) ==
  IF f = HObj("increment")
    THEN Ret([s EXCEPT !.callCount = @ + 1, !.invoked = @ + 1, !.recv = args,
                       !.that = thisArg],
             Num(s.callCount + 1))
  ELSE IF f = HObj("thrower")
    THEN Throw([s EXCEPT !.invoked = @ + 1, !.recv = args, !.that = thisArg],
               "Error: thrown by the host")
  ELSE IF f = HObj("method")
    THEN Ret([s EXCEPT !.invoked = @ + 1, !.recv = args, !.that = thisArg], Undefined)
    ELSE Ret(s, Undefined)

\* __proxy_get (part_007:525-530)
__proxy_get(s, cacheId, key) ==
  IF MapGet(s.valueCache, cacheId) = Undefined THEN Throw(s, "TypeError")
  ELSE marshal(s, GetProp(s.hostProps, MapGet(s.valueCache, cacheId), key), cacheId)

\* __proxy_set (part_007:531-538); the assignment is strict-mode code and
\* throws on a non-extensible origin
__proxy_set(s, cacheId, key, valHandle) ==
  Try(unmarshal(s, valHandle), LAMBDA val :
    LET cachedItem == MapGet(val.s.valueCache, cacheId)
    IN IF cachedItem = Undefined \/ ~IsExtensible(cachedItem)
         THEN Throw(val.s, "TypeError")
         ELSE Ret([val.s EXCEPT !.hostProps = SetProp(@, cachedItem, key, val.v)],
                  Bool(TRUE)))

\* __proxy_apply (part_007:539-555)
__proxy_apply(s, cacheId, argsArrayHandle, thisCacheIdHandle) ==
  Try(unmarshal(s, thisCacheIdHandle), LAMBDA thisId :
    Try(unmarshal(thisId.s, argsArrayHandle), LAMBDA args :
      LET cachedItem == MapGet(args.s.valueCache, cacheId)
          that == IF thisId.v.t = "string" /\ "cid" \in DOMAIN thisId.v
                    THEN MapGet(args.s.valueCache, thisId.v.cid)
                    ELSE Undefined
      IN IF TypeOf(cachedItem) # "function" THEN Throw(args.s, "Error")
         ELSE Try(HostOriginApply(args.s, cachedItem, that, args.v.e),
                  LAMBDA result : marshal(result.s, result.v, 0))))

\* Reflect.construct(target, args, newTarget) on the host: a TypeError unless
\* target and newTarget are constructors; the new object is HObj("made")
HostOriginConstruct(s, target, args, newTarget) ==
  IF IsConstructor(target) /\ IsConstructor(newTarget)
    THEN Ret([s EXCEPT !.invoked = @ + 1, !.recv = args,
                       !.callCount = IF target = HObj("increment") THEN @ + 1 ELSE @],
             HObj("made"))
    ELSE Throw(s, "TypeError")

\* __proxy_construct (part_007:556-563)
__proxy_construct(s, cacheId, argsArrayHandle, newTargetHandle) ==
  Try(unmarshal(s, argsArrayHandle), LAMBDA args :
    Try(unmarshal(args.s, newTargetHandle), LAMBDA newTarget :
      Try(HostOriginConstruct(newTarget.s, MapGet(s.valueCache, cacheId), args.v.e,
                              newTarget.v),
          LAMBDA constructed : marshal(constructed.s, constructed.v, 0))))

\* __proxy_getPrototypeOf (part_007:593-600)
__proxy_getPrototypeOf(s, cacheId) ==
  IF MapGet(s.valueCache, cacheId) = Undefined THEN Ret(s, Null)
  ELSE marshal(s, ProtoOf(MapGet(s.valueCache, cacheId)), 0)

\* variant: an exception of the host function is dropped and the sandbox
\* code gets undefined
HostFunctionSwallow(r) ==
  IF r.ok /\ "own" \in DOMAIN r THEN Ret(Release(r.s, r.own), r.v)
  ELSE IF r.ok THEN r
  ELSE Ret(r.s, Undefined)

\* vm.newFunction (part_007:524): the engine binding releases the handle
\* that the host function returns, and the argument handles it was given;
\* an exception of the host function is thrown into the sandbox code
HostFunction(r) ==
  IF r.ok /\ "own" \in DOMAIN r THEN Ret(Release(r.s, r.own), r.v) ELSE r

\* The traps of a sandbox-side Proxy (part_007:657-700)
VmProxyGet(s, p, key) == HostFunction(__proxy_get(s, p.cid, key))
VmProxySet(s, p, key, newValue) == HostFunction(__proxy_set(s, p.cid, key, newValue))
VmProxyApply(s, p, thisArg, argArray) ==
  HostFunction(__proxy_apply(s, p.cid, Arr(argArray),
                             IF p.parent # 0 THEN IdStr(p.parent) ELSE thisArg))
VmProxyGetPrototypeOf(s, p) == HostFunction(__proxy_getPrototypeOf(s, p.cid))
VmProxyConstruct(s, p, argArray, newTarget) ==
  HostFunction(__proxy_construct(s, p.cid, Arr(argArray), newTarget))

\* f.apply(thisArg, args) in the sandbox: __increment counts its calls
\* (part_006:167-169), a wrapper made by __cache_get applies its child to the
\* object it was read from, a Proxy of a function runs its apply trap
RECURSIVE VmApply(_, _, _, _)
VmApply(s, f, thisArg, args) ==
  CASE f = VObj("__increment") ->
         Ret([s EXCEPT !.vmCallCount = @ + 1, !.invoked = @ + 1, !.recv = args,
                       !.that = thisArg],
             Num(s.vmCallCount + 1))
    [] f = VObj("__method") ->
         Ret([s EXCEPT !.invoked = @ + 1, !.recv = args, !.that = thisArg], Undefined)
    [] f.t = "vwrap" -> VmApply(s, f.child, f.recv, args)
    [] f.t = "vproxy" /\ f.fn -> VmProxyApply(s, f, thisArg, args)
    [] f.t = "vobj" /\ f \notin {VObj("__increment"), VObj("__method")}
         /\ VmKind[f.id] = "function" -> Ret(s, Undefined)
    [] OTHER -> Throw(s, "TypeError")

\* __cache_get (part_007:344-356): a function-valued property comes back as
\* a new arrow function bound to the object it was read from
__cache_get(s, cacheId, key) ==
  LET cachedItem == MapGet(s.vmValueCache, cacheId)
      child == GetProp(s.vmProps, cachedItem, key)
  IN IF cachedItem = Undefined THEN Ret(s, Undefined)
     ELSE IF TypeOf(child) = "function"
       THEN Ret([s EXCEPT !.nextObj = @ + 1],
                [t |-> "vwrap", child |-> child, recv |-> cachedItem, n |-> s.nextObj + 1])
     ELSE Ret(s, child)

\* __cache_set (part_007:357-367)
__cache_set(s, cacheId, key, val) ==
  LET cachedItem == MapGet(s.vmValueCache, cacheId)
  IN IF ~Truthy(cachedItem) THEN Ret(s, Bool(FALSE))
     ELSE Ret([s EXCEPT !.vmProps = SetProp(@, cachedItem, key, val)], Bool(TRUE))

\* variant: a CacheId whose value is not a function gives undefined
__cache_applyUnchecked(s, cacheId, argsArray, thisId) ==
  LET cachedFunc == MapGet(s.vmValueCache, cacheId)
      that == IF Truthy(thisId) /\ "cid" \in DOMAIN thisId
                THEN MapGet(s.vmValueCache, thisId.cid)
                ELSE Undefined
  IN IF TypeOf(cachedFunc) = "function"
       THEN VmApply(s, cachedFunc, IF that = Undefined THEN VObj("globalThis") ELSE that,
                    argsArray.e)
       ELSE Ret(s, Undefined)

\* __cache_apply (part_007:368-379)
__cache_apply(s, cacheId, argsArray, thisId) ==
  LET cachedFunc == MapGet(s.vmValueCache, cacheId)
      that == IF Truthy(thisId) /\ "cid" \in DOMAIN thisId
                THEN MapGet(s.vmValueCache, thisId.cid)
                ELSE Undefined
  IN IF TypeOf(cachedFunc) = "function"
       THEN VmApply(s, cachedFunc, IF that = Undefined THEN VObj("globalThis") ELSE that,
                    argsArray.e)
       ELSE Throw(s, "Error")

\* __cache_construct (part_007:380-386): Reflect.construct in the sandbox; the
\* new object is VObj("__made")
__cache_construct(s, cacheId, argsArray, newTarget) ==
  LET cachedFunc == MapGet(s.vmValueCache, cacheId)
  IN IF IsConstructor(cachedFunc) /\ IsConstructor(newTarget)
       THEN Ret([s EXCEPT !.invoked = @ + 1, !.recv = argsArray.e], VObj("__made"))
       ELSE Throw(s, "TypeError")

\* __cache_getPrototypeOf (part_007:423-438): a base prototype (one whose
\* own prototype is null) loses its tag before it is returned
__cache_getPrototypeOf(s, cacheId) ==
  LET cachedItem == MapGet(s.vmValueCache, cacheId)
      proto == ProtoOf(cachedItem)
      untag(map) == [x \in DOMAIN map \ {proto} |-> map[x]]
  IN IF ~Truthy(cachedItem) THEN Ret(s, Null)
     ELSE IF proto # Null /\ ProtoOf(proto) = Null
       THEN Ret([s EXCEPT !.vmTag = untag(@), !.vmCacheIdMap = untag(@)], proto)
     ELSE Ret(s, proto)

\* scope.dispose(): the n handles the Scope manages are released
ScopeDispose(r, n) == [r EXCEPT !.s = Release(@, n)]

\* Marshaller.__VMCache_get (part_007:825-835): the Scope manages getter,
\* cacheIdHandle, keyHandle and returnValHandle, and is disposed on line 833,
\* which is reached when nothing before it threw
__VMCache_get(s, cacheId, key) ==
  Try(__cache_get(Acquire(s, 3), cacheId, key), LAMBDA returnVal :
    Try(unmarshal(Acquire(returnVal.s, 1), returnVal.v), LAMBDA jsVal :
      ScopeDispose(jsVal, 4)))

\* Marshaller.__VMCache_set (part_007:836-847): setter, cacheIdHandle,
\* keyHandle, newValHandle and returnValHandle, disposed on line 845
__VMCache_set(s, cacheId, key, newVal) ==
  Try(marshal(Acquire(s, 3), newVal, 0), LAMBDA newValHandle :
    Try(__cache_set(newValHandle.s, cacheId, key, newValHandle.v), LAMBDA returnVal :
      Try(unmarshal(Acquire(returnVal.s, 1), returnVal.v), LAMBDA jsVal :
        ScopeDispose(jsVal, 4 + newValHandle.own))))

\* Marshaller.__VMCache_apply (part_007:848-862): caller, cacheIdHandle,
\* argArrayHandle and thisIdHandle are made before the try statement; the
\* call and unmarshal are inside it, and its finally disposes the Scope
__VMCache_apply(s, cacheId, args, thisId) ==
  Try(marshal(Acquire(s, 2), Arr(args), 0), LAMBDA argArrayHandle :
    Try(marshal(argArrayHandle.s, IF thisId # 0 THEN IdStr(thisId) ELSE Undefined, 0),
        LAMBDA thisIdHandle :
      Then(__cache_apply(thisIdHandle.s, cacheId, argArrayHandle.v, thisIdHandle.v),
           LAMBDA returnVal :
        IF returnVal.ok
          THEN ScopeDispose(unmarshal(Acquire(returnVal.s, 1), returnVal.v),
                            3 + argArrayHandle.own + thisIdHandle.own)
          ELSE ScopeDispose(returnVal, 2 + argArrayHandle.own + thisIdHandle.own))))

\* A property descriptor, without its value
Desc(key, e, c, w) == [key |-> key, enumerable |-> e, configurable |-> c, writable |-> w]

\* The own properties two sandbox objects are created with, in creation order:
\* vmRecord is {b: 1, a: null, k: undefined} with a non-enumerable o added by
\* Object.defineProperty; vmFixed is
\* Object.defineProperty({}, 'a', {value: 1, enumerable: true}), whose a is
\* not configurable (as the properties of a frozen or sealed object are)
VmCreatedWith ==
  [o \in VmObjs |->
     CASE o = "vmRecord" -> <<Desc("b", TRUE, TRUE, TRUE), Desc("a", TRUE, TRUE, TRUE),
                              Desc("k", TRUE, TRUE, TRUE), Desc("o", FALSE, TRUE, TRUE)>>
       [] o = "vmFixed" -> <<Desc("a", TRUE, FALSE, FALSE)>>
       [] OTHER -> <<>>]

\* the own string-keyed properties of a sandbox object in property order:
\* those it was created with, then the keys assigned since
OwnDescriptors(s, obj) ==
  LET made == IF obj.t = "vobj" THEN VmCreatedWith[obj.id] ELSE <<>>
      has(key) == obj \in DOMAIN s.vmProps /\ s.vmProps[obj][key] # Absent
      added == SelectSeq(<<"k", "a", "b", "f", "o", "then">>,
                         LAMBDA key : has(key) /\ \A i \in DOMAIN made : made[i].key # key)
  IN SelectSeq(made, LAMBDA d : has(d.key))
       \o [i \in DOMAIN added |-> Desc(added[i], TRUE, TRUE, TRUE)]

\* __cache_ownKeys (part_007:459-468): Object.getOwnPropertyNames
__cache_ownKeys(s, cacheId) ==
  LET cachedItem == MapGet(s.vmValueCache, cacheId)
      ds == OwnDescriptors(s, cachedItem)
  IN IF ~Truthy(cachedItem) THEN Ret(s, Arr(<<>>))
     ELSE Ret(s, Arr([i \in DOMAIN ds |-> Str(ds[i].key)]))

\* Marshaller.__VMCache_ownKeys (part_007:964-974): ownKeysGetter,
\* cacheIdHandle and returnValHandle, disposed on line 972
__VMCache_ownKeys(s, cacheId) ==
  Try(__cache_ownKeys(Acquire(s, 2), cacheId), LAMBDA returnVal :
    Try(unmarshal(Acquire(returnVal.s, 1), returnVal.v), LAMBDA jsVal :
      ScopeDispose(jsVal, 3)))

\* __cache_getOwnPropertyDescriptor (part_007:413-422): the descriptor object
\* of the sandbox, or undefined
__cache_getOwnPropertyDescriptor(s, cacheId, key) ==
  LET cachedItem == MapGet(s.vmValueCache, cacheId)
      ds == SelectSeq(OwnDescriptors(s, cachedItem), LAMBDA d : d.key = key)
  IN IF ~Truthy(cachedItem) \/ ds = <<>> THEN Ret(s, Undefined)
     ELSE Ret(s, [t |-> "descriptor", d |-> ds[1], value |-> s.vmProps[cachedItem][key]])

\* Marshaller.__VMCache_getOwnPropertyDescriptor (part_007:900-929): the
\* descriptor is rebuilt on the host from the fields that are not nullish
\* (writable, configurable and enumerable are booleans, so always copied;
\* value is left out when it is null or undefined; get and set are absent
\* for the data properties of the model)
__VMCache_getOwnPropertyDescriptor(s, cacheId, prop) ==
  Try(marshal(Acquire(s, 2), Str(prop), 0), LAMBDA propHandle :
    Try(__cache_getOwnPropertyDescriptor(Acquire(propHandle.s, 1), cacheId, prop),
        LAMBDA returnValHandle :
      IF returnValHandle.v = Undefined
        THEN ScopeDispose(returnValHandle, 3 + propHandle.own)
        ELSE Try(unmarshal(returnValHandle.s, returnValHandle.v.value), LAMBDA pdProp :
               ScopeDispose(Ret(pdProp.s,
                                [t |-> "pd", d |-> returnValHandle.v.d,
                                 value |-> IF pdProp.v = Null THEN Undefined ELSE pdProp.v]),
                            3 + propHandle.own))))

\* [[GetOwnProperty]] of a host Proxy whose target is the empty object of
\* part_007:208: the getOwnPropertyDescriptor trap (271-273), then the
\* engine's check of the result against the target, which has no such
\* property: a descriptor that is not configurable is a TypeError
HostProxyGetOwnProperty(s, p, key) ==
  Try(__VMCache_getOwnPropertyDescriptor(s, p.cid, key), LAMBDA pd :
    IF pd.v # Undefined /\ ~pd.v.d.configurable THEN Throw(pd.s, "TypeError") ELSE pd)

\* the names among `names` that [[GetOwnProperty]] reports as enumerable
RECURSIVE EnumerableNames(_, _, _, _)
EnumerableNames(s, p, names, acc) ==
  IF names = <<>> THEN Ret(s, acc)
  ELSE Try(HostProxyGetOwnProperty(s, p, Head(names).v), LAMBDA pd :
         EnumerableNames(pd.s, p, Tail(names),
                         IF pd.v # Undefined /\ pd.v.d.enumerable
                           THEN Append(acc, Head(names).v) ELSE acc))

\* Object.keys(p) on a host Proxy: the ownKeys trap (part_007:283-285), then
\* [[GetOwnProperty]] for each name
HostObjectKeys(s, p) ==
  Try(__VMCache_ownKeys(s, p.cid), LAMBDA names : EnumerableNames(names.s, p, names.v.e, <<>>))

\* keys.map((key) => p[key]) on a host Proxy: the get trap for each key
RECURSIVE HostReadKeys(_, _, _, _)
HostReadKeys(s, p, keys, acc) ==
  IF keys = <<>> THEN Ret(s, acc)
  ELSE Try(__VMCache_get(s, p.cid, Head(keys)), LAMBDA got :
         HostReadKeys(got.s, p, Tail(keys), Append(acc, got.v)))

\* Marshaller.__VMCache_construct (part_007:863-874): constructor,
\* cacheIdHandle, argArrayHandle, newTargetHandle and returnValHandle,
\* disposed on line 872
__VMCache_construct(s, cacheId, args, newTarget) ==
  Try(marshal(Acquire(s, 2), Arr(args), 0), LAMBDA argArrayHandle :
    Try(marshal(argArrayHandle.s, newTarget, 0), LAMBDA newTargetHandle :
      Try(__cache_construct(newTargetHandle.s, cacheId, argArrayHandle.v,
                            newTargetHandle.v),
          LAMBDA returnVal :
        Try(unmarshal(Acquire(returnVal.s, 1), returnVal.v), LAMBDA jsVal :
          ScopeDispose(jsVal, 3 + argArrayHandle.own + newTargetHandle.own)))))

\* Marshaller.__VMCache_getPrototypeOf (part_007:930-940): prototypeGetter,
\* cacheIdHandle and returnValHandle, disposed on line 938
__VMCache_getPrototypeOf(s, cacheId) ==
  Try(__cache_getPrototypeOf(Acquire(s, 2), cacheId), LAMBDA returnVal :
    Try(unmarshal(Acquire(returnVal.s, 1), returnVal.v), LAMBDA jsVal :
      ScopeDispose(jsVal, 3)))

(***************************************************************************)
(* The marshaller's state machine: what host code and sandbox code do with  *)
(* a Marshaller on a ready sandbox.  Every action is one synchronous call   *)
(* with all the crossings it makes.                                         *)
(***************************************************************************)

\* the state the operators pass along, read from the variables
S ==
  [valueCache |-> valueCache, hostTag |-> hostTag, cacheIdMap |-> cacheIdMap,
   hostProps |-> hostProps, vmValueCache |-> vmValueCache, vmTag |-> vmTag,
   vmCacheIdMap |-> vmCacheIdMap, vmProps |-> vmProps, nextId |-> nextId,
   nextObj |-> nextObj, callCount |-> callCount, vmCallCount |-> vmCallCount,
   invoked |-> 0, recv |-> <<>>, live |-> 0, managed |-> 0, that |-> Undefined]

\* the variables take the state an operator returned
Commit(s) ==
  /\ valueCache' = s.valueCache
  /\ hostTag' = s.hostTag
  /\ cacheIdMap' = s.cacheIdMap
  /\ hostProps' = s.hostProps
  /\ vmValueCache' = s.vmValueCache
  /\ vmTag' = s.vmTag
  /\ vmCacheIdMap' = s.vmCacheIdMap
  /\ vmProps' = s.vmProps
  /\ nextId' = s.nextId
  /\ nextObj' = s.nextObj
  /\ callCount' = s.callCount
  /\ vmCallCount' = s.vmCallCount

NoOp ==
  [op |-> "none", x |-> Undefined, args |-> <<>>, ok |-> TRUE, r |-> Undefined,
   id |-> 0, cached |-> Undefined, invoked |-> 0, recv |-> <<>>, origin |-> Undefined,
   live |-> 0, own |-> 0, dangling |-> FALSE, that |-> Undefined, thisArg |-> Undefined,
   target |-> Undefined]

\* a promise of the promise model: its state and its value or reason
Pending == [st |-> "pending", v |-> Undefined]
NoPromise == [st |-> "none", v |-> Undefined]
Settled(p) == p.st \in {"fulfilled", "rejected"}

\* ctx: the isolated context whose __getCachedPromise made vmP (0: none yet);
\* qCtx: the context Q lives in; into: the context the reaction registered on H
\* marshalled its result into (0: it has not); settledDead: that reaction called
\* vmPromise.resolve or reject when ctx was disposed; drainedDead:
\* executePendingJobs was called on a disposed runtime; tornQ: teardown was
\* called while the host promise made for Q was pending
NoBridge == [ctx |-> 0, qCtx |-> 1, into |-> 0, settledDead |-> FALSE,
             drainedDead |-> FALSE, tornQ |-> FALSE]

(***************************************************************************)
(* AbstractManager (packages/manager/src/manager.ts).  A listener is a      *)
(* host function, named as in the package's tests.  What the emitter holds  *)
(* for an event is a handler: the listener itself (n = 0, key GlobalKey),   *)
(* or a filter closure made by getFilteredListener for a listener and a     *)
(* key; closures are numbered in the order they are made.                   *)
(***************************************************************************)
ManagerEvents == {"data", "empty"}
ManagerKeys == {"key", "key2"}
ManagerListeners == {"handleData"}
GlobalKey == "__GLOBALKEY"
EventKeys == ManagerKeys \cup {GlobalKey}

\* Bound of the manager model: the on, onGlobal, off, offGlobal and teardown calls
MaxManagerOps == 4

Handler(listener, key, n) == [l |-> listener, key |-> key, n |-> n]

\* EventEmitter.on of tseep: the handler is added after the ones there are
EmitterOn(em, eventName, h) == [em EXCEPT ![eventName] = Append(@, h)]

\* the sequence without its element at position i
WithoutAt(seq, i) == [j \in 1..(Len(seq) - 1) |-> IF j < i THEN seq[j] ELSE seq[j + 1]]

\* EventEmitter.off of tseep, which follows Node's removeListener: the most
\* recently added instance of the handler is removed, if there is one
EmitterOff(em, eventName, h) ==
  LET at == {i \in 1..Len(em[eventName]) : em[eventName][i] = h}
  IN IF at = {} THEN em
     ELSE [em EXCEPT ![eventName] = WithoutAt(@, CHOOSE i \in at : \A j \in at : j <= i)]

\* AbstractManager.getFilteredListener (manager.ts:80-98)
getFilteredListener(map, n, key, listener) ==
  LET baseListenerMap == IF listener \in DOMAIN map THEN map[listener] ELSE <<>>
  IN IF key \in DOMAIN baseListenerMap
       THEN [map |-> MapSet(map, listener, baseListenerMap), n |-> n,
             filteredListener |-> baseListenerMap[key]]
       ELSE [map |-> MapSet(map, listener,
                            MapSet(baseListenerMap, key, Handler(listener, key, n + 1))),
             n |-> n + 1,
             filteredListener |-> Handler(listener, key, n + 1)]

\* the function without key in its domain (Map.delete)
MapDelete(map, key) == [k \in DOMAIN map \ {key} |-> map[k]]

\* history: the count of (eventName, key, listener) after an on() call, and
\* after an off() call
Registered(reg, eventName, key, listener) ==
  [count |-> [reg.count EXCEPT ![eventName][key][listener] = @ + 1],
   ever |-> reg.ever \cup {<<eventName, key, listener>>}]
Unregistered(reg, eventName, key, listener) ==
  [reg EXCEPT !.count[eventName][key][listener] = IF @ > 0 THEN @ - 1 ELSE 0]

NoEmit == [eventName |-> "none", key |-> GlobalKey, calls |-> <<>>,
           keyed |-> [l \in ManagerListeners |-> 0],
           global |-> [l \in ManagerListeners |-> 0],
           everKeyed |-> {}, everGlobal |-> {}]

\* the state after `new AbstractManager(opts)` (manager.ts:16-24)
ManagerNew ==
  /\ emitter = [e \in ManagerEvents |-> <<>>]
  /\ filteredListenersMap = <<>>
  /\ nextFilter = 0
  /\ lastEmit = NoEmit
  /\ registrations = [count |-> [e \in ManagerEvents |-> [k \in EventKeys |->
                                    [l \in ManagerListeners |-> 0]]],
                      ever |-> {}]
  /\ managerOps = 0

(***************************************************************************)
(* StateStore (packages/store/src/store.ts).  _data is a Map: its entries   *)
(* in insertion order, each a key and the current value of the key's        *)
(* BehaviorSubject.  An aggregate (the value of _changeSubject) and a plain *)
(* Map are functions from keys to values.                                   *)
(***************************************************************************)
StoreKeys == {"a", "b"}
StoreValues == {Num(1), Num(2), Undefined}

\* Bound of the store model: the set, delete and clear calls
MaxStoreOps == 4

\* `new StateStore({a: 0})` (store.ts:24-30), watchAll() subscribed and its
\* first emission delivered
StoreBase == [a |-> Num(0)]
StoreNew ==
  /\ _data = <<[key |-> "a", value |-> Num(0)]>>
  /\ _changeSubject = StoreBase
  /\ plainMap = <<[key |-> "a", value |-> Num(0)]>>
  /\ received = StoreBase
  /\ debouncing = FALSE
  /\ storeOps = 0

PackagesNew == ManagerNew /\ StoreNew

PromiseNew ==
  /\ bridge = NoBridge
  /\ hostP = Pending
  /\ vmP = NoPromise
  /\ vmQ = Pending
  /\ hostQ = NoPromise
  /\ listening = "no"
  /\ counters = [resolves |-> 0, rejects |-> 0, finallys |-> 0]
  /\ hostJobs = <<>>
  /\ vmJobs = <<>>

\* the state of a fresh context: no global of the model's names
SandboxNew ==
  /\ globalProps = <<>>
  /\ lexicals = <<>>
  /\ lastRun = [op |-> "none", code |-> [c |-> "id", n |-> "a"], vars |-> <<>>, pad |-> 0, ok |-> TRUE,
                r |-> Undefined, lex |-> <<>>, glob |-> <<>>, managed |-> 0]
  /\ runs = 0

\* the state after `new Marshaller()` (part_007:17-21) and of a fresh sandbox,
\* with hp and vp the own properties of the host's and the sandbox's objects
MarshallerWith(hp, vp) ==
  /\ valueCache = <<>>
  /\ hostTag = <<>>
  /\ cacheIdMap = <<>>
  /\ hostProps = hp
  /\ vmValueCache = <<>>
  /\ vmTag = <<>>
  /\ vmCacheIdMap = <<>>
  /\ vmProps = vp
  /\ nextId = 0
  /\ nextObj = 0
  /\ callCount = 0
  /\ vmCallCount = 0
  /\ global = [g \in Globals |-> Undefined]
  /\ globalOrigin = [g \in Globals |-> Undefined]
  /\ held = [h \in HostVars |-> Undefined]
  /\ heldOrigin = [h \in HostVars |-> Undefined]
  /\ lastOp = NoOp
  /\ firstId = <<>>
  /\ written = <<>>
  /\ ops = 0

\* the own properties of Object.freeze({k: 0})
FrozenProps ==
  HObj("frozenObj") :> [key \in Keys |-> IF key = "k" THEN Num(0) ELSE Absent]

\* the own properties of an object whose property f holds the function fn
MethodProps(obj, fn) == obj :> [key \in Keys |-> IF key = "f" THEN fn ELSE Absent]

MarshallerNew == MarshallerWith(FrozenProps, <<>>)

\* Marshaller.init (part_007:27-46): the helpers are installed in a new
\* context, whose __valueCache and __cacheIdMap are empty and whose objects
\* are new; the Marshaller object and its valueCache stay, and so does what
\* host code holds
MarshallerInit ==
  /\ vmValueCache' = <<>>
  /\ vmTag' = <<>>
  /\ vmCacheIdMap' = <<>>
  /\ vmProps' = <<>>
  /\ vmCallCount' = 0
  /\ global' = [g \in Globals |-> Undefined]
  /\ globalOrigin' = [g \in Globals |-> Undefined]
  /\ UNCHANGED <<valueCache, hostTag, cacheIdMap, hostProps, nextId, nextObj, callCount,
                 held, heldOrigin, lastOp, firstId, written, ops>>

(***************************************************************************)
(* The VMManager lifecycle (packages/vm/src/vm.ts).                         *)
(***************************************************************************)
NoCall == [st |-> "none", readyAtCall |-> FALSE, fresh |-> FALSE,
           tornAfterCall |-> FALSE, sawReady |-> FALSE, sawAlive |-> FALSE,
           callNo |-> 0, doneNo |-> 0, tornWaiting |-> FALSE]

\* caller c waits on a ready promise that has not been resolved
WaitingOnReady(c) ==
  /\ callers[c].st = "pending"
  /\ ~callers[c].readyAtCall
  /\ readyPromise # 0
  /\ readyPromise \notin fulfilled

\* the position of the next awaitReady() call among the calls made so far, and
\* of the next continuation among the continuations that have run
NextCallNo == Cardinality({c \in Callers : callers[c].st # "none"}) + 1
NextDoneNo == Cardinality({c \in Callers : callers[c].st = "done"}) + 1

\* no teardown call yet.  threwAt: the statement of the latest call that threw;
\* held: the resources the manager and its Marshaller held when it was called;
\* attempted: the ones whose dispose() the call reached
NoTeardown == [outcome |-> "none", completedBefore |-> FALSE, cleared |-> FALSE,
               threwAt |-> "none", held |-> {}, attempted |-> {}]

\* the resource named r, when cond says it is there
Resource(r, cond) == IF cond THEN {r} ELSE {}

VMInit ==
  /\ ready = FALSE
  /\ module = 0 /\ runtime = 0 /\ vm = 0
  /\ marshallerVm = 0
  /\ ctxAlive = {} /\ isoAlive = {} /\ rtAlive = {}
  /\ readyPromise = 0
  /\ fulfilled = {}
  /\ reactions = [c \in Callers |-> <<>>]
  /\ microtasks = <<>>
  /\ timers = 0
  /\ initPc = "idle"
  /\ initCount = 0
  /\ callers = [c \in Callers |-> NoCall]
  /\ lastTeardown = NoTeardown
  /\ lastEval = [kind |-> "none", phase |-> "uninitialized", outcome |-> "none"]
  /\ completedSince = FALSE
  /\ tornDown = FALSE
  /\ everReady = FALSE
  /\ MarshallerNew
  /\ SandboxNew
  /\ PromiseNew /\ PackagesNew

\* QuickJSContext.alive of VMManager.vm (this.vm?.alive)
VmAlive == vm # 0 /\ vm \in ctxAlive

\* requireVM without its check
RequireVMNoCheck == TRUE

\* VMManager.requireVM: passes iff this.vm?.alive
RequireVMOk == VmAlive

Job(k, c) == [k |-> k, c |-> c]

\* resolve(true) of the ready promise p (vm.ts:79): a promise settles once; its
\* reactions are queued as jobs in registration order
ResolvedJobs(p) == IF p \in fulfilled THEN <<>> ELSE reactions[p]

\* VMManager.setReady(true) (vm.ts:146-151) with readyResolve (vm.ts:78-83):
\* resolves this._readyPromise if there is one and arms the timer that clears it
SetReadyTrue(queue) ==
  /\ ready' = TRUE
  /\ everReady' = TRUE
  /\ IF readyPromise # 0
       THEN /\ microtasks' = queue \o ResolvedJobs(readyPromise)
            /\ fulfilled' = fulfilled \cup {readyPromise}
            /\ reactions' = [reactions EXCEPT ![readyPromise] = <<>>]
            /\ timers' = timers + 1
       ELSE /\ microtasks' = queue
            /\ UNCHANGED <<fulfilled, reactions, timers>>
  /\ UNCHANGED readyPromise

\* VMManager.init up to its await (vm.ts:36-43).  spec.md 4.5: only one
\* initializer runs at a time and init is not called on a ready manager.
InitCall ==
  /\ UNCHANGED <<mVars, eVars, pVars, kVars>>
  /\ initPc = "idle"
  /\ ~ready
  /\ initCount < MaxInits
  /\ initPc' = "loading"
  /\ initCount' = initCount + 1
  /\ tornDown' = FALSE
  /\ UNCHANGED <<ready, module, runtime, vm, marshallerVm, ctxAlive, isoAlive,
                 rtAlive, readyPromise, fulfilled, reactions, microtasks, timers,
                 callers, lastTeardown, lastEval, completedSince, everReady>>

\* the engine module's promise fulfils: init's continuation becomes a job
ModuleLoaded ==
  /\ UNCHANGED <<mVars, eVars, pVars, kVars>>
  /\ initPc = "loading"
  /\ \A i \in 1..Len(microtasks) : microtasks[i].k # "initCont"
  /\ microtasks' = Append(microtasks, Job("initCont", 0))
  /\ UNCHANGED <<ready, module, runtime, vm, marshallerVm, ctxAlive, isoAlive,
                 rtAlive, readyPromise, fulfilled, reactions, timers, initPc,
                 initCount, callers, lastTeardown, lastEval, completedSince,
                 tornDown, everReady>>

\* init's continuation when it keeps the context it had: the global object
\* and the global declarations of the sandbox stay
InitContinuationSameContext ==
  /\ MarshallerInit
  /\ UNCHANGED <<globalProps, lexicals, lastRun, runs, pVars, kVars>>
  /\ microtasks # <<>>
  /\ Head(microtasks).k = "initCont"
  /\ module' = initCount
  /\ runtime' = initCount
  /\ vm' = initCount
  /\ marshallerVm' = initCount
  /\ rtAlive' = rtAlive \cup {initCount}
  /\ ctxAlive' = ctxAlive \cup {initCount}
  /\ isoAlive' = isoAlive \cup {initCount}
  /\ SetReadyTrue(Tail(microtasks))
  /\ initPc' = "idle"
  /\ completedSince' = TRUE
  /\ UNCHANGED <<initCount, callers, lastTeardown, lastEval, tornDown>>

\* VMManager.init after its await (vm.ts:44-56): new runtime and context,
\* Marshaller.init (part_007:30-46) makes its isolated context, setReady(true)
InitContinuation ==
  /\ MarshallerInit
  /\ globalProps' = <<>>
  /\ lexicals' = <<>>
  /\ UNCHANGED <<lastRun, runs, pVars, kVars>>
  /\ microtasks # <<>>
  /\ Head(microtasks).k = "initCont"
  /\ module' = initCount
  /\ runtime' = initCount
  /\ vm' = initCount
  /\ marshallerVm' = initCount
  /\ rtAlive' = rtAlive \cup {initCount}
  /\ ctxAlive' = ctxAlive \cup {initCount}
  /\ isoAlive' = isoAlive \cup {initCount}
  /\ SetReadyTrue(Tail(microtasks))
  /\ initPc' = "idle"
  /\ completedSince' = TRUE
  /\ UNCHANGED <<initCount, callers, lastTeardown, lastEval, tornDown>>

\* Marshaller.teardown (part_007:48-50): this.vm?.dispose().  Disposing a
\* context that is no longer alive throws (the engine's use-after-free error).
MarshallerTeardownThrows == marshallerVm # 0 /\ marshallerVm \notin isoAlive

\* the dispose() calls of teardown, in the order of vm.ts:61-64
DisposeFailures == {"none", "marshaller", "context", "runtime"}

\* the statement of teardown that throws, when the engine fails the dispose()
\* call `fail` ("none": the engine fails none)
ThrowsAt(fail) ==
  IF MarshallerTeardownThrows \/ fail = "marshaller" THEN "marshaller" ELSE fail

\* VMManager.teardown (vm.ts:59-67).  The function has no await and no try: it
\* runs to its end, or to the statement that throws, in one step.
TeardownWith(fail) ==
  /\ fail = "marshaller" => (marshallerVm # 0 /\ marshallerVm \in isoAlive)
  /\ fail = "context" => vm # 0
  /\ fail = "runtime" => runtime # 0
  /\ UNCHANGED <<mVars, eVars, hostP, vmP, vmQ, hostQ, listening, counters, hostJobs, kVars>>
  /\ bridge' = [bridge EXCEPT !.tornQ = @ \/ hostQ.st = "pending"]
  /\ ready' = FALSE
  /\ tornDown' = TRUE
  /\ completedSince' = FALSE
  /\ \E at \in {ThrowsAt(fail)} :
       /\ isoAlive' = IF at = "marshaller" THEN isoAlive ELSE isoAlive \ {marshallerVm}
       /\ ctxAlive' = IF at \in {"marshaller", "context"} THEN ctxAlive ELSE ctxAlive \ {vm}
       /\ vm' = IF at \in {"marshaller", "context"} THEN vm ELSE 0
       /\ rtAlive' = IF at = "none" THEN rtAlive \ {runtime} ELSE rtAlive
       /\ runtime' = IF at = "none" THEN 0 ELSE runtime
       /\ module' = IF at = "none" THEN 0 ELSE module
       /\ vmJobs' = IF at = "none" THEN <<>> ELSE vmJobs
       /\ lastTeardown' =
            [outcome |-> IF at = "none" THEN "returned" ELSE "threw",
             completedBefore |-> completedSince,
             cleared |-> module' = 0 /\ runtime' = 0 /\ vm' = 0,
             threwAt |-> at,
             held |-> Resource("marshaller", marshallerVm # 0)
                        \cup Resource("context", vm # 0)
                        \cup Resource("runtime", runtime # 0),
             attempted |-> Resource("marshaller", marshallerVm # 0)
                             \cup Resource("context", vm # 0 /\ at # "marshaller")
                             \cup Resource("runtime",
                                            runtime # 0 /\ at \in {"none", "runtime"})]
  /\ callers' = [c \in Callers |->
                   IF callers[c].st = "pending"
                     THEN [callers[c] EXCEPT !.tornAfterCall = TRUE,
                                             !.tornWaiting = @ \/ WaitingOnReady(c)]
                     ELSE callers[c]]
  /\ UNCHANGED <<marshallerVm, readyPromise, fulfilled, reactions, microtasks,
                 timers, initPc, initCount, lastEval, everReady>>

\* teardown when the engine fails no dispose() call of a live resource
Teardown == TeardownWith("none")

\* awaitReady without the branch that awaits an existing _readyPromise: every
\* call made while not ready installs a promise of its own
AwaitReadyAlwaysNew(c) ==
  /\ UNCHANGED <<mVars, eVars, pVars, kVars>>
  /\ callers[c].st = "none"
  /\ callers' = [callers EXCEPT ![c] = [NoCall EXCEPT !.st = "pending",
                                          !.callNo = NextCallNo,
                                          !.readyAtCall = ready,
                                          !.fresh = ~everReady]]
  /\ IF ready
       THEN /\ microtasks' = Append(microtasks, Job("cont", c))
            /\ UNCHANGED <<readyPromise, reactions>>
       ELSE /\ readyPromise' = c
            /\ microtasks' = Append(microtasks, Job("thenable", c))
            /\ UNCHANGED reactions
  /\ UNCHANGED <<ready, module, runtime, vm, marshallerVm, ctxAlive, isoAlive,
                 rtAlive, fulfilled, timers, initPc, initCount, lastTeardown,
                 lastEval, completedSince, tornDown, everReady>>

\* VMManager.awaitReady (vm.ts:69-90), called by caller c, who then attaches a
\* continuation to the promise the async function returns
AwaitReady(c) ==
  /\ UNCHANGED <<mVars, eVars, pVars, kVars>>
  /\ callers[c].st = "none"
  /\ callers' = [callers EXCEPT ![c] = [NoCall EXCEPT !.st = "pending",
                                          !.callNo = NextCallNo,
                                          !.readyAtCall = ready,
                                          !.fresh = ~everReady]]
  /\ IF ready
       THEN \* return true
            /\ microtasks' = Append(microtasks, Job("cont", c))
            /\ UNCHANGED <<readyPromise, reactions>>
       ELSE IF readyPromise # 0
         THEN \* return await this._readyPromise.promise
              IF readyPromise \in fulfilled
                THEN /\ microtasks' = Append(microtasks, Job("resume", c))
                     /\ UNCHANGED <<readyPromise, reactions>>
                ELSE /\ reactions' = [reactions EXCEPT ![readyPromise] =
                                        Append(@, Job("resume", c))]
                     /\ UNCHANGED <<readyPromise, microtasks>>
         ELSE \* this._readyPromise = {...}; return readyPromise
              /\ readyPromise' = c
              /\ microtasks' = Append(microtasks, Job("thenable", c))
              /\ UNCHANGED reactions
  /\ UNCHANGED <<ready, module, runtime, vm, marshallerVm, ctxAlive, isoAlive,
                 rtAlive, fulfilled, timers, initPc, initCount, lastTeardown,
                 lastEval, completedSince, tornDown, everReady>>

\* An async function that returns a promise p resolves its own promise with p:
\* a job calls p.then(resolveOuter).  Here p is the promise created by caller c.
ThenableJob ==
  /\ UNCHANGED <<mVars, eVars, pVars, kVars>>
  /\ microtasks # <<>>
  /\ Head(microtasks).k = "thenable"
  /\ LET c == Head(microtasks).c IN
       IF c \in fulfilled
         THEN /\ microtasks' = Append(Tail(microtasks), Job("resolveOuter", c))
              /\ UNCHANGED reactions
         ELSE /\ reactions' = [reactions EXCEPT ![c] = Append(@, Job("resolveOuter", c))]
              /\ microtasks' = Tail(microtasks)
  /\ UNCHANGED <<ready, module, runtime, vm, marshallerVm, ctxAlive, isoAlive,
                 rtAlive, readyPromise, fulfilled, timers, initPc, initCount,
                 callers, lastTeardown, lastEval, completedSince, tornDown, everReady>>

\* A reaction to the fulfilled ready promise: the awaiting awaitReady resumes and
\* returns true ("resume"), or the returned promise is resolved ("resolveOuter");
\* either way the promise the caller holds fulfils and its continuation is queued.
ReactionJob ==
  /\ UNCHANGED <<mVars, eVars, pVars, kVars>>
  /\ microtasks # <<>>
  /\ Head(microtasks).k \in {"resume", "resolveOuter"}
  /\ microtasks' = Append(Tail(microtasks), Job("cont", Head(microtasks).c))
  /\ UNCHANGED <<ready, module, runtime, vm, marshallerVm, ctxAlive, isoAlive,
                 rtAlive, readyPromise, fulfilled, reactions, timers, initPc,
                 initCount, callers, lastTeardown, lastEval, completedSince,
                 tornDown, everReady>>

\* The caller's continuation runs: the promise awaitReady returned has fulfilled
\* (vm.test.ts:10-13 reads vm.ready here).
Continuation ==
  /\ UNCHANGED <<mVars, eVars, pVars, kVars>>
  /\ microtasks # <<>>
  /\ Head(microtasks).k = "cont"
  /\ callers' = [callers EXCEPT ![Head(microtasks).c] =
                   [@ EXCEPT !.st = "done", !.sawReady = ready, !.sawAlive = VmAlive,
                              !.doneNo = NextDoneNo]]
  /\ microtasks' = Tail(microtasks)
  /\ UNCHANGED <<ready, module, runtime, vm, marshallerVm, ctxAlive, isoAlive,
                 rtAlive, readyPromise, fulfilled, reactions, timers, initPc,
                 initCount, lastTeardown, lastEval, completedSince, tornDown,
                 everReady>>

\* The timer armed by readyResolve fires (vm.ts:80-82): a timer callback runs
\* only when no promise job is pending.  It clears whatever _readyPromise holds.
TimerFire ==
  /\ UNCHANGED <<mVars, eVars, pVars, kVars>>
  /\ timers > 0
  /\ microtasks = <<>>
  /\ timers' = timers - 1
  /\ readyPromise' = 0
  /\ UNCHANGED <<ready, module, runtime, vm, marshallerVm, ctxAlive, isoAlive,
                 rtAlive, fulfilled, reactions, microtasks, initPc, initCount,
                 callers, lastTeardown, lastEval, completedSince, tornDown, everReady>>

\* The lifecycle state of spec.md 4.5 as the manager's fields show it
Phase ==
  IF ready THEN "ready"
  ELSE IF initPc = "loading" THEN "initializing"
  ELSE IF tornDown THEN "disposed"
  ELSE "uninitialized"

\* VMManager.eval (vm.ts:106-116): requireVM first, then evalCode
EvalOutcome == IF RequireVMOk THEN "evaluated" ELSE "threw"

Eval ==
  /\ UNCHANGED <<mVars, eVars, pVars, kVars>>
  /\ lastEval' = [kind |-> "eval", phase |-> Phase, outcome |-> EvalOutcome]
  /\ UNCHANGED <<ready, module, runtime, vm, marshallerVm, ctxAlive, isoAlive,
                 rtAlive, readyPromise, fulfilled, reactions, microtasks, timers,
                 initPc, initCount, callers, lastTeardown, completedSince,
                 tornDown, everReady>>

\* VMManager.scopedEval (vm.ts:123-144): requireVM first, then evalCode
ScopedEval ==
  /\ UNCHANGED <<mVars, eVars, pVars, kVars>>
  /\ lastEval' = [kind |-> "scopedEval", phase |-> Phase, outcome |-> EvalOutcome]
  /\ UNCHANGED <<ready, module, runtime, vm, marshallerVm, ctxAlive, isoAlive,
                 rtAlive, readyPromise, fulfilled, reactions, microtasks, timers,
                 initPc, initCount, callers, lastTeardown, completedSince,
                 tornDown, everReady>>

VMNext ==
  \/ InitCall
  \/ ModuleLoaded
  \/ InitContinuation
  \/ Teardown
  \/ \E c \in Callers : AwaitReady(c)
  \/ ThenableJob
  \/ ReactionJob
  \/ Continuation
  \/ TimerFire
  \/ Eval
  \/ ScopedEval

VMSpec == VMInit /\ [][VMNext]_vars

\* the one caller of awaitReady in the specifications below
BridgeCallers == {1}

\* The lifecycle when the engine may fail a dispose() call of teardown
DisposeNext ==
  \/ InitCall
  \/ ModuleLoaded
  \/ InitContinuation
  \/ \E fail \in DisposeFailures : TeardownWith(fail)
  \/ \E c \in BridgeCallers : AwaitReady(c)
  \/ ThenableJob
  \/ ReactionJob
  \/ Continuation
  \/ Eval
  \/ ScopedEval

DisposeSpec == VMInit /\ [][DisposeNext]_vars

(***************************************************************************)
(* The marshaller's actions.                                                *)
(***************************************************************************)
\* Marshaller.requireVM (part_007:52-57)
RequireMarshallerVM == marshallerVm # 0 /\ marshallerVm \in isoAlive

\* the CacheId carried by the wire data that serializeJSValue writes for x
\* (0: none)
SerializedId(s, x) ==
  Then(serializeJSValue(s, x, 0),
       LAMBDA ser : IF ser.ok /\ ser.v.w = "tagged" THEN ser.v.id ELSE 0)

\* the host values that are cached when they are serialized
HostCacheable == {HObj(o) : o \in {"hostObj", "hostObj2", "frozenObj", "increment", "hostPromise"}}

VmObjects == {VObj(o) : o \in {"vmObj", "vmObj2", "__increment"}}

\* host code: global[g] = marshaller.marshal(x)
Marshal(x, g) ==
  /\ ops < MaxOps
  /\ RequireMarshallerVM
  /\ \E r \in {marshal(S, x, 0)}, id \in {SerializedId(S, x)} :
        /\ Commit(r.s)
        /\ global' = IF r.ok THEN [global EXCEPT ![g] = r.v] ELSE global
        /\ globalOrigin' = IF r.ok THEN [globalOrigin EXCEPT ![g] = x] ELSE globalOrigin
        /\ lastOp' = [NoOp EXCEPT !.op = "marshal",
                                  !.live = r.s.live, !.own = IF r.ok THEN r.own ELSE 0,
                                  !.x = x, !.ok = r.ok, !.r = r.v,
                                  !.id = id, !.cached = MapGet(r.s.valueCache, id)]
        /\ firstId' = IF r.ok /\ x \in HostCacheable /\ x \notin DOMAIN firstId
                        THEN MapSet(firstId, x, id) ELSE firstId
  /\ ops' = ops + 1
  /\ UNCHANGED <<held, heldOrigin, written, vmVars, eVars, pVars, kVars>>

\* host code: held[h] = marshaller.unmarshal(v)
Unmarshal(v, h) ==
  /\ ops < MaxOps
  /\ RequireMarshallerVM
  /\ \E r \in {unmarshal(S, v)} :
        /\ Commit(r.s)
        /\ held' = IF r.ok THEN [held EXCEPT ![h] = r.v] ELSE held
        /\ heldOrigin' = IF r.ok THEN [heldOrigin EXCEPT ![h] = v] ELSE heldOrigin
        /\ lastOp' = [NoOp EXCEPT !.op = "unmarshal",
                                  !.live = r.s.live, !.x = v, !.ok = r.ok, !.r = r.v]
  /\ ops' = ops + 1
  /\ UNCHANGED <<global, globalOrigin, firstId, written, vmVars, eVars, pVars, kVars>>

\* host code: marshaller.unmarshal(marshaller.marshal(x))
RoundTrip(x) ==
  /\ ops < MaxOps
  /\ RequireMarshallerVM
  /\ \E r \in {Try(marshal(S, x, 0), LAMBDA m : unmarshal(m.s, m.v))} :
        /\ Commit(r.s)
        /\ lastOp' = [NoOp EXCEPT !.op = "roundTrip",
                                  !.live = r.s.live, !.x = x, !.ok = r.ok, !.r = r.v]
  /\ ops' = ops + 1
  /\ UNCHANGED <<global, globalOrigin, held, heldOrigin, firstId, written, vmVars, eVars, pVars, kVars>>

\* host code: marshaller.marshal(marshaller.unmarshal(v)) for a sandbox value v
RoundTripVm(v) ==
  /\ ops < MaxOps
  /\ RequireMarshallerVM
  /\ \E r \in {Try(unmarshal(S, v), LAMBDA u : marshal(u.s, u.v, 0))} :
        /\ Commit(r.s)
        /\ lastOp' = [NoOp EXCEPT !.op = "roundTripVm",
                                  !.live = r.s.live, !.x = v, !.ok = r.ok, !.r = r.v]
  /\ ops' = ops + 1
  /\ UNCHANGED <<global, globalOrigin, held, heldOrigin, firstId, written, vmVars, eVars, pVars, kVars>>

\* sandbox code calls the Proxy of a host function held in global[g]:
\* `g(...args)` (thisArg undefined) or vm.callFunction(handle, vm.global, ...)
SandboxCall(g, args, thisArg) ==
  /\ ops < MaxOps
  /\ RequireMarshallerVM
  /\ global[g].t = "vproxy" /\ global[g].fn
  /\ \E r \in {VmApply(S, global[g], thisArg, args)} :
        /\ Commit(r.s)
        /\ lastOp' = [NoOp EXCEPT !.op = "sandboxCall", !.that = r.s.that,
                                  !.thisArg = thisArg,
                                  !.live = r.s.live, !.x = global[g], !.args = args,
                                  !.ok = r.ok, !.r = r.v, !.invoked = r.s.invoked,
                                  !.recv = r.s.recv, !.origin = globalOrigin[g]]
  /\ ops' = ops + 1
  /\ UNCHANGED <<global, globalOrigin, held, heldOrigin, firstId, written, vmVars, eVars, pVars, kVars>>

\* host code calls the Proxy of a sandbox function held in held[h]
HostCall(h, args) ==
  /\ ops < MaxOps
  /\ RequireMarshallerVM
  /\ held[h].t = "hproxy" /\ held[h].fn
  /\ \E r \in {__VMCache_apply(S, held[h].cid, args, held[h].parent)} :
        /\ Commit(r.s)
        /\ lastOp' = [NoOp EXCEPT !.op = "hostCall", !.that = r.s.that,
                                  !.live = r.s.live,
                                  !.dangling = held[h].cid \notin DOMAIN vmValueCache, !.x = held[h], !.args = args,
                                  !.ok = r.ok, !.r = r.v, !.invoked = r.s.invoked,
                                  !.recv = r.s.recv, !.origin = heldOrigin[h]]
  /\ ops' = ops + 1
  /\ UNCHANGED <<global, globalOrigin, held, heldOrigin, firstId, written, vmVars, eVars, pVars, kVars>>

\* sandbox code: global[g].k = v on the Proxy of a host value
SandboxSet(g, v) ==
  /\ ops < MaxOps
  /\ RequireMarshallerVM
  /\ global[g].t = "vproxy"
  /\ \E r \in {VmProxySet(S, global[g], "k", v)} :
        /\ Commit(r.s)
        /\ lastOp' = [NoOp EXCEPT !.op = "sandboxSet",
                                  !.live = r.s.live, !.x = v, !.ok = r.ok,
                                  !.r = GetProp(r.s.hostProps, globalOrigin[g], "k"),
                                  !.origin = globalOrigin[g]]
        /\ written' = IF r.ok THEN MapSet(written, globalOrigin[g], v) ELSE written
  /\ ops' = ops + 1
  /\ UNCHANGED <<global, globalOrigin, held, heldOrigin, firstId, vmVars, eVars, pVars, kVars>>

\* sandbox code reads global[g].k through the Proxy of a host value
SandboxGet(g) ==
  /\ ops < MaxOps
  /\ RequireMarshallerVM
  /\ global[g].t = "vproxy"
  /\ \E r \in {VmProxyGet(S, global[g], "k")} :
        /\ Commit(r.s)
        /\ lastOp' = [NoOp EXCEPT !.op = "sandboxGet",
                                  !.live = r.s.live, !.x = global[g], !.ok = r.ok,
                                  !.r = r.v, !.origin = globalOrigin[g]]
  /\ ops' = ops + 1
  /\ UNCHANGED <<global, globalOrigin, held, heldOrigin, firstId, written, vmVars, eVars, pVars, kVars>>

\* host code: held[h].k = v on the Proxy of a sandbox value; a set trap that
\* returns false makes the strict-mode assignment throw
HostSet(h, v) ==
  /\ ops < MaxOps
  /\ RequireMarshallerVM
  /\ held[h].t = "hproxy"
  /\ \E r \in {__VMCache_set(S, held[h].cid, "k", v)}, ok \in BOOLEAN :
        /\ ok = (r.ok /\ r.v = Bool(TRUE))
        /\ Commit(r.s)
        /\ lastOp' = [NoOp EXCEPT !.op = "hostSet",
                                  !.live = r.s.live,
                                  !.dangling = held[h].cid \notin DOMAIN vmValueCache, !.x = v, !.ok = ok,
                                  !.r = GetProp(r.s.vmProps, heldOrigin[h], "k"),
                                  !.origin = heldOrigin[h]]
        /\ written' = IF ok THEN MapSet(written, heldOrigin[h], v) ELSE written
  /\ ops' = ops + 1
  /\ UNCHANGED <<global, globalOrigin, held, heldOrigin, firstId, vmVars, eVars, pVars, kVars>>

\* host code reads held[h].k through the Proxy of a sandbox value
HostGet(h) ==
  /\ ops < MaxOps
  /\ RequireMarshallerVM
  /\ held[h].t = "hproxy"
  /\ \E r \in {__VMCache_get(S, held[h].cid, "k")} :
        /\ Commit(r.s)
        /\ lastOp' = [NoOp EXCEPT !.op = "hostGet",
                                  !.live = r.s.live,
                                  !.dangling = held[h].cid \notin DOMAIN vmValueCache, !.x = held[h], !.ok = r.ok,
                                  !.r = r.v, !.origin = heldOrigin[h]]
  /\ ops' = ops + 1
  /\ UNCHANGED <<global, globalOrigin, held, heldOrigin, firstId, written, vmVars, eVars, pVars, kVars>>

\* sandbox code: Object.getPrototypeOf(global[g]) on the Proxy of a host value
SandboxGetPrototypeOf(g) ==
  /\ ops < MaxOps
  /\ RequireMarshallerVM
  /\ global[g].t = "vproxy"
  /\ \E r \in {VmProxyGetPrototypeOf(S, global[g])} :
        /\ Commit(r.s)
        /\ lastOp' = [NoOp EXCEPT !.op = "sandboxGetPrototypeOf",
                                  !.live = r.s.live, !.x = global[g],
                                  !.ok = r.ok, !.r = r.v, !.origin = globalOrigin[g]]
  /\ ops' = ops + 1
  /\ UNCHANGED <<global, globalOrigin, held, heldOrigin, firstId, written, vmVars, eVars, pVars, kVars>>

\* host code: Object.getPrototypeOf(held[h]) on the Proxy of a sandbox value
HostGetPrototypeOf(h) ==
  /\ ops < MaxOps
  /\ RequireMarshallerVM
  /\ held[h].t = "hproxy"
  /\ \E r \in {__VMCache_getPrototypeOf(S, held[h].cid)} :
        /\ Commit(r.s)
        /\ lastOp' = [NoOp EXCEPT !.op = "hostGetPrototypeOf",
                                  !.live = r.s.live,
                                  !.dangling = held[h].cid \notin DOMAIN vmValueCache, !.x = held[h],
                                  !.ok = r.ok, !.r = r.v, !.origin = heldOrigin[h]]
  /\ ops' = ops + 1
  /\ UNCHANGED <<global, globalOrigin, held, heldOrigin, firstId, written, vmVars, eVars, pVars, kVars>>

\* The values the model's host code marshals, and its sandbox code passes
HostData ==
  {Undefined, Null, Str("a"), Num(1), NaN, Bool(TRUE), BigInt(7), Sym("s", TRUE),
   Sym("u", FALSE), Date(5), Arr(<<>>), Arr(<<Num(1), Str("a")>>), Arr(<<Null>>),
   Arr(<<NaN>>), Arr(<<Arr(<<Undefined>>)>>), Arr(<<HObj("hostObj")>>)}

HostArgLists == {<<>>, <<Num(1)>>, <<Null>>}
VmArgLists == {<<>>, <<Num(1)>>, <<Null>>}
HostSetValues == {Num(1), Arr(<<Null>>), HObj("hostObj"), HObj("increment")}
VmSetValues == {Num(1), Arr(<<Null>>), VObj("vmObj"), VObj("__increment")}
VmData == {Null, Bool(TRUE), Arr(<<Null>>), Arr(<<VObj("vmObj")>>)}

HeldValues == {held[h] : h \in HostVars} \ {Undefined}
GlobalValues == {global[g] : g \in Globals} \ {Undefined}

\* the state of a manager whose init has completed (vm.ts:44-56)
VMReady ==
  /\ ready = TRUE
  /\ module = 1 /\ runtime = 1 /\ vm = 1
  /\ marshallerVm = 1
  /\ ctxAlive = {1} /\ isoAlive = {1} /\ rtAlive = {1}
  /\ readyPromise = 0
  /\ fulfilled = {}
  /\ reactions = [c \in Callers |-> <<>>]
  /\ microtasks = <<>>
  /\ timers = 0
  /\ initPc = "idle"
  /\ initCount = 1
  /\ callers = [c \in Callers |-> NoCall]
  /\ lastTeardown = NoTeardown
  /\ lastEval = [kind |-> "none", phase |-> "uninitialized", outcome |-> "none"]
  /\ completedSince = TRUE
  /\ tornDown = FALSE
  /\ everReady = TRUE

MarshalInit == VMReady /\ MarshallerNew /\ SandboxNew /\ PromiseNew /\ PackagesNew

MarshalNext ==
  \/ \E x \in HostCacheable \cup HeldValues, g \in Globals : Marshal(x, g)
  \/ \E v \in VmObjects \cup GlobalValues, h \in HostVars : Unmarshal(v, h)
  \/ \E x \in HostData \cup HostCacheable \cup HeldValues : RoundTrip(x)
  \/ \E v \in VmData \cup VmObjects \cup GlobalValues : RoundTripVm(v)
  \/ \E g \in Globals, args \in VmArgLists, thisArg \in {Undefined, VObj("globalThis")} :
       SandboxCall(g, args, thisArg)
  \/ \E h \in HostVars, args \in HostArgLists : HostCall(h, args)
  \/ \E g \in Globals, v \in VmSetValues : SandboxSet(g, v)
  \/ \E g \in Globals : SandboxGet(g)
  \/ \E h \in HostVars, v \in HostSetValues : HostSet(h, v)
  \/ \E h \in HostVars : HostGet(h)
  \/ \E g \in Globals : SandboxGetPrototypeOf(g)
  \/ \E h \in HostVars : HostGetPrototypeOf(h)

MarshalSpec == MarshalInit /\ [][MarshalNext]_vars

(***************************************************************************)
(* Host-held Proxies across a teardown and a second init: the operations    *)
(* of host code on a Proxy of a sandbox value, and the lifecycle calls.     *)
(***************************************************************************)
DanglingNext ==
  \/ \E v \in VmObjects, h \in HostVars : Unmarshal(v, h)
  \/ \E h \in HostVars, args \in {<<>>, <<Num(1)>>} : HostCall(h, args)
  \/ \E h \in HostVars, v \in {Num(1), HObj("hostObj")} : HostSet(h, v)
  \/ \E h \in HostVars : HostGet(h)
  \/ \E h \in HostVars : HostGetPrototypeOf(h)
  \/ Teardown
  \/ InitCall
  \/ ModuleLoaded
  \/ InitContinuation

DanglingSpec == MarshalInit /\ [][DanglingNext]_vars

(***************************************************************************)
(* Functions read from a property of a proxied object, and calls with an   *)
(* explicit receiver.  The host object hostObj has the property f, whose    *)
(* value is the host function method; the sandbox object vmObj has the      *)
(* property f, whose value is the sandbox function __method.                *)
(***************************************************************************)
MaxMethodOps == 5

\* sandbox code: global[g].f(...args) on the Proxy of a host object: the get
\* trap, then the apply trap of what it returned, with the Proxy as thisArg
SandboxCallMethod(g, args) ==
  /\ ops < MaxMethodOps
  /\ RequireMarshallerVM
  /\ global[g].t = "vproxy" /\ ~global[g].fn
  /\ \E r \in {Try(VmProxyGet(S, global[g], "f"),
                    LAMBDA m : VmApply(m.s, m.v, global[g], args))} :
        /\ Commit(r.s)
        /\ lastOp' = [NoOp EXCEPT !.op = "sandboxCallMethod", !.that = r.s.that,
                                  !.thisArg = global[g], !.live = r.s.live,
                                  !.x = global[g], !.args = args, !.ok = r.ok, !.r = r.v,
                                  !.invoked = r.s.invoked, !.recv = r.s.recv,
                                  !.origin = globalOrigin[g]]
  /\ ops' = ops + 1
  /\ UNCHANGED <<global, globalOrigin, held, heldOrigin, firstId, written, vmVars, eVars, pVars, kVars>>

\* host code: held[h].f(...args) on the Proxy of a sandbox object: the get
\* trap (part_007:250-255), then the apply trap of the Proxy it returned
\* (258-260), or a plain call when it returned a host function
HostCallMethod(h, args) ==
  /\ ops < MaxMethodOps
  /\ RequireMarshallerVM
  /\ held[h].t = "hproxy" /\ ~held[h].fn
  /\ \E r \in {Try(__VMCache_get(S, held[h].cid, "f"), LAMBDA m :
                    IF m.v.t = "hproxy" /\ m.v.fn
                      THEN __VMCache_apply(m.s, m.v.cid, args, m.v.parent)
                    ELSE IF m.v.t = "hobj" /\ TypeOf(m.v) = "function"
                      THEN HostOriginApply(m.s, m.v, held[h], args)
                    ELSE Throw(m.s, "TypeError"))} :
        /\ Commit(r.s)
        /\ lastOp' = [NoOp EXCEPT !.op = "hostCallMethod", !.that = r.s.that,
                                  !.thisArg = held[h], !.live = r.s.live,
                                  !.x = held[h], !.args = args, !.ok = r.ok, !.r = r.v,
                                  !.invoked = r.s.invoked, !.recv = r.s.recv,
                                  !.origin = heldOrigin[h]]
  /\ ops' = ops + 1
  /\ UNCHANGED <<global, globalOrigin, held, heldOrigin, firstId, written, vmVars, eVars, pVars, kVars>>

\* host code: held[h].call(thisArg, ...args) on the Proxy of a sandbox
\* function: the apply trap (part_007:258-260) does not read its thisArg
HostCallWith(h, thisArg, args) ==
  /\ ops < MaxMethodOps
  /\ RequireMarshallerVM
  /\ held[h].t = "hproxy" /\ held[h].fn
  /\ \E r \in {__VMCache_apply(S, held[h].cid, args, held[h].parent)} :
        /\ Commit(r.s)
        /\ lastOp' = [NoOp EXCEPT !.op = "hostCallWith", !.that = r.s.that,
                                  !.thisArg = thisArg, !.live = r.s.live,
                                  !.x = held[h], !.args = args, !.ok = r.ok, !.r = r.v,
                                  !.invoked = r.s.invoked, !.recv = r.s.recv,
                                  !.origin = heldOrigin[h],
                                  !.target = MapGet(vmValueCache, held[h].cid)]
  /\ ops' = ops + 1
  /\ UNCHANGED <<global, globalOrigin, held, heldOrigin, firstId, written, vmVars, eVars, pVars, kVars>>

\* sandbox code: global[g].call(thisArg, ...args) on the Proxy of a host
\* function: the apply trap (part_007:666-668)
SandboxCallWith(g, thisArg, args) ==
  /\ ops < MaxMethodOps
  /\ RequireMarshallerVM
  /\ global[g].t = "vproxy" /\ global[g].fn
  /\ \E r \in {VmApply(S, global[g], thisArg, args)} :
        /\ Commit(r.s)
        /\ lastOp' = [NoOp EXCEPT !.op = "sandboxCallWith", !.that = r.s.that,
                                  !.thisArg = thisArg, !.live = r.s.live,
                                  !.x = global[g], !.args = args, !.ok = r.ok, !.r = r.v,
                                  !.invoked = r.s.invoked, !.recv = r.s.recv,
                                  !.origin = globalOrigin[g],
                                  !.target = MapGet(valueCache, global[g].cid)]
  /\ ops' = ops + 1
  /\ UNCHANGED <<global, globalOrigin, held, heldOrigin, firstId, written, vmVars, eVars, pVars, kVars>>

\* sandbox code: new global[g](...args) on the Proxy of a host function: the
\* construct trap (part_007:669-671)
SandboxConstruct(g, args) ==
  /\ ops < MaxMethodOps
  /\ RequireMarshallerVM
  /\ global[g].t = "vproxy" /\ global[g].fn
  /\ \E r \in {VmProxyConstruct(S, global[g], args, global[g])} :
        /\ Commit(r.s)
        /\ lastOp' = [NoOp EXCEPT !.op = "sandboxConstruct", !.live = r.s.live,
                                  !.x = global[g], !.args = args, !.ok = r.ok, !.r = r.v,
                                  !.invoked = r.s.invoked, !.recv = r.s.recv,
                                  !.origin = globalOrigin[g],
                                  !.target = MapGet(valueCache, global[g].cid)]
  /\ ops' = ops + 1
  /\ UNCHANGED <<global, globalOrigin, held, heldOrigin, firstId, written, vmVars, eVars, pVars, kVars>>

\* host code: new held[h](...args) on the Proxy of a sandbox function: the
\* construct trap (part_007:262-264)
HostConstruct(h, args) ==
  /\ ops < MaxMethodOps
  /\ RequireMarshallerVM
  /\ held[h].t = "hproxy" /\ held[h].fn
  /\ \E r \in {__VMCache_construct(S, held[h].cid, args, held[h])} :
        /\ Commit(r.s)
        /\ lastOp' = [NoOp EXCEPT !.op = "hostConstruct", !.live = r.s.live,
                                  !.x = held[h], !.args = args, !.ok = r.ok, !.r = r.v,
                                  !.invoked = r.s.invoked, !.recv = r.s.recv,
                                  !.origin = heldOrigin[h],
                                  !.target = MapGet(vmValueCache, held[h].cid)]
  /\ ops' = ops + 1
  /\ UNCHANGED <<global, globalOrigin, held, heldOrigin, firstId, written, vmVars, eVars, pVars, kVars>>

MethodArgLists == {<<>>, <<Num(1)>>}

MethodInit ==
  /\ VMReady
  /\ MarshallerWith(FrozenProps @@ MethodProps(HObj("hostObj"), HObj("method")),
                    MethodProps(VObj("vmObj"), VObj("__method")))
  /\ SandboxNew
  /\ PromiseNew /\ PackagesNew

MethodNext ==
  \/ \E x \in {HObj("hostObj"), HObj("hostObj2"), HObj("method"), HObj("thrower")},
        g \in Globals : Marshal(x, g)
  \/ \E v \in {VObj("vmObj"), VObj("vmObj2"), VObj("__method"), VObj("__increment")},
        h \in HostVars : Unmarshal(v, h)
  \/ \E g \in Globals, args \in MethodArgLists : SandboxCallMethod(g, args)
  \/ \E h \in HostVars, args \in MethodArgLists : HostCallMethod(h, args)
  \/ \E g \in Globals, args \in MethodArgLists, thisArg \in {Undefined, VObj("vmObj")} :
       SandboxCallWith(g, thisArg, args)
  \/ \E g \in Globals, args \in MethodArgLists : SandboxConstruct(g, args)
  \/ \E h \in HostVars, args \in MethodArgLists : HostConstruct(h, args)
  \/ \E h \in HostVars, args \in MethodArgLists : HostCallWith(h, HObj("hostObj"), args)
  \/ \E g \in Globals : SandboxGetPrototypeOf(g)
  \/ \E h \in HostVars : HostGetPrototypeOf(h)

MethodSpec == MethodInit /\ [][MethodNext]_vars

(***************************************************************************)
(* What sandbox code can reach from the Proxy of a host value.  The host's  *)
(* Object.prototype and Function.prototype have the own property            *)
(* constructor, which holds the host's Object and Function.                 *)
(***************************************************************************)
BuiltinProps ==
  (HObj("hObjectProto") :> [key \in Keys |-> IF key = "constructor" THEN HObj("Object")
                                                                    ELSE Absent])
  @@ (HObj("hFunctionProto") :> [key \in Keys |-> IF key = "constructor"
                                                    THEN HObj("Function") ELSE Absent])

\* the host built-ins that the host of this model never passes to the sandbox
HostBuiltins == {HObj("hObjectProto"), HObj("hFunctionProto"), HObj("Object"),
                 HObj("Function")}

\* sandbox code: global[g] = global[g][key], or
\* global[g] = Object.getPrototypeOf(global[g]) for the step "proto", on the
\* Proxy of a host value
SandboxWalk(g, step) ==
  /\ ops < MaxOps
  /\ RequireMarshallerVM
  /\ global[g].t = "vproxy"
  /\ \E r \in {IF step = "proto" THEN VmProxyGetPrototypeOf(S, global[g])
                                 ELSE VmProxyGet(S, global[g], step)} :
        /\ Commit(r.s)
        /\ global' = IF r.ok THEN [global EXCEPT ![g] = r.v] ELSE global
        /\ globalOrigin' =
             IF r.ok
               THEN [globalOrigin EXCEPT
                       ![g] = IF r.v.t = "vproxy" THEN MapGet(r.s.valueCache, r.v.cid)
                                                  ELSE r.v]
               ELSE globalOrigin
        /\ lastOp' = [NoOp EXCEPT !.op = "sandboxWalk", !.live = r.s.live,
                                  !.x = global[g], !.ok = r.ok, !.r = r.v,
                                  !.origin = globalOrigin[g]]
  /\ ops' = ops + 1
  /\ UNCHANGED <<held, heldOrigin, firstId, written, vmVars, eVars, pVars, kVars>>

ReachInit ==
  /\ VMReady
  /\ MarshallerWith(FrozenProps @@ BuiltinProps, <<>>)
  /\ SandboxNew
  /\ PromiseNew /\ PackagesNew

ReachNext ==
  \/ \E x \in {HObj("hostObj"), HObj("frozenObj"), HObj("increment")}, g \in Globals :
       Marshal(x, g)
  \/ \E g \in Globals, step \in {"proto", "constructor", "k"} : SandboxWalk(g, step)
  \/ \E g \in Globals, v \in {Num(1), VObj("vmObj")} : SandboxSet(g, v)
  \/ \E g \in Globals, args \in {<<>>, <<Num(1)>>} : SandboxCall(g, args, Undefined)

ReachSpec == ReachInit /\ [][ReachNext]_vars

(***************************************************************************)
(* Enumeration of the Proxy of a sandbox object by host code.              *)
(***************************************************************************)
\* host code: const keys = Object.keys(held[h]); keys.map((key) => held[h][key])
HostKeys(h) ==
  /\ ops < MaxOps
  /\ RequireMarshallerVM
  /\ held[h].t = "hproxy" /\ ~held[h].fn
  /\ \E r \in {Try(HostObjectKeys(S, held[h]), LAMBDA keys :
                    Try(HostReadKeys(keys.s, held[h], keys.v, <<>>), LAMBDA vals :
                      Ret(vals.s, [t |-> "entries", keys |-> keys.v, vals |-> vals.v])))} :
        /\ Commit(r.s)
        /\ lastOp' = [NoOp EXCEPT !.op = "hostKeys", !.live = r.s.live, !.x = held[h],
                                  !.ok = r.ok, !.r = r.v, !.origin = heldOrigin[h]]
  /\ ops' = ops + 1
  /\ UNCHANGED <<global, globalOrigin, held, heldOrigin, firstId, written, vmVars, eVars, pVars, kVars>>

\* the values of the own properties of vmRecord and vmFixed
EnumProps ==
  (VObj("vmRecord") :> [key \in Keys |-> CASE key = "b" -> Num(1)
                                           [] key = "a" -> Null
                                           [] key = "k" -> Undefined
                                           [] key = "o" -> Num(2)
                                           [] OTHER -> Absent])
  @@ (VObj("vmFixed") :> [key \in Keys |-> IF key = "a" THEN Num(1) ELSE Absent])

EnumInit == VMReady /\ MarshallerWith(FrozenProps, EnumProps) /\ SandboxNew /\ PromiseNew /\ PackagesNew

EnumNext ==
  \/ \E v \in {VObj("vmRecord"), VObj("vmFixed"), VObj("vmObj2")}, h \in HostVars :
       Unmarshal(v, h)
  \/ \E h \in HostVars : HostKeys(h)
  \/ \E h \in HostVars : HostGet(h)
  \/ \E h \in HostVars, v \in {Num(1), Null} : HostSet(h, v)
  \/ \E h \in HostVars : HostGetPrototypeOf(h)

EnumSpec == EnumInit /\ [][EnumNext]_vars

(***************************************************************************)
(* Evaluation (vm.ts:99-144): registerVMGlobal, eval and scopedEval on a    *)
(* ready manager.  Sandbox code is a small expression language: an          *)
(* identifier, a sum of two identifiers, or the statement `const n = v`.    *)
(* evalCode runs its text as a script of the context: a top-level const     *)
(* joins the context's global lexical declarations, which later scripts     *)
(* see and may not declare again.                                           *)
(***************************************************************************)
Names == {"a", "b", "occ", "f", "o"}

Id(n) == [c |-> "id", n |-> n]
Add(l, r) == [c |-> "add", l |-> l, r |-> r]
Const(n, v) == [c |-> "const", n |-> n, v |-> v]
Call(n) == [c |-> "call", n |-> n]
TryCall(n) == [c |-> "trycall", n |-> n]
SetK(n) == [c |-> "set", n |-> n]

\* the value of identifier n: a local declaration hides a global lexical
\* one, which hides a property of the global object
Resolve(locals, lex, glob, n) ==
  IF n \in DOMAIN locals THEN [ok |-> TRUE, v |-> locals[n]]
  ELSE IF n \in DOMAIN lex THEN [ok |-> TRUE, v |-> lex[n]]
  ELSE IF n \in DOMAIN glob THEN [ok |-> TRUE, v |-> glob[n]]
  ELSE [ok |-> FALSE, v |-> Error("ReferenceError")]

\* the value of an expression; a declaration is not an expression
Expr(locals, lex, glob, code) ==
  CASE code.c = "id" -> Resolve(locals, lex, glob, code.n)
    [] code.c = "add" ->
         Then(Resolve(locals, lex, glob, code.l), LAMBDA l :
           Then(Resolve(locals, lex, glob, code.r), LAMBDA r :
             IF ~l.ok THEN l
             ELSE IF ~r.ok THEN r
             ELSE [ok |-> TRUE, v |-> Num(l.v.v + r.v.v)]))
    [] OTHER -> [ok |-> FALSE, v |-> Error("SyntaxError")]

\* The evaluation of an expression by the engine, with the calls it makes
\* into the host.  Call(n) is `n()`, TryCall(n) is
\* `(() => { try { return n() } catch (e) { return 'caught' } })()` and
\* SetK(n) is `n.k = 1`; an exception thrown by a host function reaches the
\* sandbox code as an exception of the call (vm.newFunction, part_007:524).
Run(s, locals, lex, glob, code) ==
  CASE code.c \in {"call", "trycall"} ->
         Then(Resolve(locals, lex, glob, code.n), LAMBDA f :
           Then(IF f.ok THEN VmApply(s, f.v, Undefined, <<>>) ELSE Throw(s, f.v.v),
                LAMBDA r :
             IF code.c = "trycall" /\ ~r.ok THEN Ret(r.s, Str("caught"))
             ELSE [s |-> r.s, ok |-> r.ok, v |-> r.v]))
    [] code.c = "set" ->
         Then(Resolve(locals, lex, glob, code.n), LAMBDA p :
           IF ~p.ok THEN Throw(s, p.v.v)
           ELSE IF p.v.t = "vproxy"
             THEN Try(VmProxySet(s, p.v, "k", Num(1)), LAMBDA r : Ret(r.s, Num(1)))
           ELSE IF p.v.t \in {"undefined", "null"} THEN Throw(s, "TypeError")
           ELSE Ret(s, Num(1)))
    [] OTHER ->
         Then(Expr(locals, lex, glob, code), LAMBDA e :
           IF e.ok THEN Ret(s, e.v) ELSE Throw(s, e.v.v))

\* vm.evalCode(code) (vm.ts:110): the script's completion value, and the
\* global lexical declarations after it
RunScript(lex, glob, code) ==
  IF code.c = "const"
    THEN IF code.n \in DOMAIN lex
           THEN [ok |-> FALSE, v |-> Error("SyntaxError: redeclaration"), lex |-> lex]
           ELSE [ok |-> TRUE, v |-> Undefined, lex |-> MapSet(lex, code.n, code.v)]
    ELSE Then(Expr(<<>>, lex, glob, code),
              LAMBDA e : [ok |-> e.ok, v |-> e.v, lex |-> lex])

\* the same with the calls the script makes into the host
evalCode(s, lex, glob, code) ==
  IF code.c \in {"call", "trycall", "set"}
    THEN Then(Run(s, <<>>, lex, glob, code),
              LAMBDA e : [s |-> e.s, ok |-> e.ok, v |-> e.v, lex |-> lex])
    ELSE Then(RunScript(lex, glob, code),
              LAMBDA e : [s |-> s, ok |-> e.ok, v |-> e.v, lex |-> e.lex])

\* The '=' characters that end a generated id.  generateRandomId
\* (part_007:3-7) is btoa of the decimal digits of a number below 10^12:
\* twelve digits give no padding, eleven give one '=', ten give two.
TokenPads == {0, 1, 2}

\* scope.manage(handle), or a handle kept in a variable that a finally
\* disposes: n more handles are to be released when the call ends
Manage(s, n) == [s EXCEPT !.managed = @ + n]

\* scope.dispose() (vm.ts:142), resultHandle?.dispose() (vm.ts:114): the
\* handles managed so far are released
DisposeManaged(r) == [r EXCEPT !.s = [@ EXCEPT !.live = @ - r.s.managed, !.managed = 0]]

\* the keys of contextVars, in the order the destructuring reads them
KeysOf(contextVars) ==
  SelectSeq(<<"a", "b", "f", "k", "o", "then">>, LAMBDA key : contextVars[key] # Absent)

\* const { keys } = contextHandle (vm.ts:131): each key is read through the
\* get trap of the Proxy
RECURSIVE BindVars(_, _, _, _)
BindVars(s, p, keys, locals) ==
  IF keys = <<>> THEN Ret(s, locals)
  ELSE Try(VmProxyGet(s, p, Head(keys)), LAMBDA got :
         BindVars(got.s, p, Tail(keys), MapSet(locals, Head(keys), got.v)))

\* the object literal passed as contextVars by the n-th call
ContextObj(n) == [t |-> "hobj", id |-> "contextVars", n |-> n]

\* The body of scopedEval (vm.ts:126-140).  The text handed to evalCode is
\*   (<token> = {}) => { { const { <keys> } = <token>
\*                         return (<code>) } }
\* where <token> ends with the generated id and '_'.  With one '=' of
\* padding the text reads `(<name> = _ = {}) => ... = <name> = _`, which
\* evaluates the identifier _ ; with two it reads `(<name> == _ = {})`,
\* which is not a parameter list.
\* The handles are accounted as the code creates them: scopedFunc is
\* managed by the Scope once evalCode has returned it, marshal(contextVars)
\* is called before the try, and the try's finally disposes the Scope.
scopedEvalBody(s, lex, glob, code, contextVars, pad, obj) ==
  IF pad = 2 \/ code.c = "const" THEN Throw(s, "SyntaxError")
  ELSE Try(marshal([Manage(Acquire(s, 1), 1) EXCEPT !.hostProps = MapSet(@, obj, contextVars)],
                   obj, 0),
           LAMBDA contextHandle :
    Then(Resolve(<<>>, lex, glob, "_"), LAMBDA underscore :
      DisposeManaged(
        IF pad = 1 /\ ~underscore.ok
          THEN Throw(Manage(contextHandle.s, contextHandle.own), underscore.v.v)
        ELSE Try(BindVars(Manage(contextHandle.s, contextHandle.own), contextHandle.v,
                          KeysOf(contextVars), <<>>),
                 LAMBDA bound :
               Try(Run(bound.s, bound.v, lex, glob, code), LAMBDA e :
                 unmarshal(Manage(Acquire(e.s, 1), 1), e.v))))))

\* VMManager.registerVMGlobal (vm.ts:99-104)
RegisterVMGlobal(key, val) ==
  /\ runs < MaxRuns
  /\ RequireVMOk /\ RequireMarshallerVM
  /\ \E r \in {marshal(S, val, 0)} :
        /\ Commit(r.s)
        /\ globalProps' = IF r.ok THEN MapSet(globalProps, key, r.v) ELSE globalProps
        /\ lastRun' = [op |-> "registerVMGlobal", code |-> Id(key), vars |-> <<>>, pad |-> 0,
                       ok |-> r.ok, r |-> r.v, lex |-> lexicals, glob |-> globalProps,
                       managed |-> 0]
  /\ runs' = runs + 1
  /\ UNCHANGED <<lexicals, global, globalOrigin, held, heldOrigin, lastOp, firstId,
                 written, ops, vmVars, pVars, kVars>>

\* VMManager.eval (vm.ts:106-116) on a ready manager
EvalCode(code) ==
  /\ runs < MaxRuns
  /\ RequireVMOk /\ RequireMarshallerVM
  /\ \E e \in {evalCode(S, lexicals, globalProps, code)} :
       \E r \in {IF e.ok THEN DisposeManaged(unmarshal(Manage(Acquire(e.s, 1), 1), e.v))
                         ELSE Throw(e.s, e.v.v)} :
          /\ Commit(r.s)
          /\ lexicals' = e.lex
          /\ lastRun' = [op |-> "eval", code |-> code, vars |-> <<>>, pad |-> 0,
                         ok |-> r.ok, r |-> r.v, lex |-> lexicals, glob |-> globalProps,
                         managed |-> r.s.managed]
  /\ runs' = runs + 1
  /\ UNCHANGED <<globalProps, global, globalOrigin, held, heldOrigin, lastOp, firstId,
                 written, ops, vmVars, pVars, kVars>>

\* scopedEval with its destructuring at the top level of the script: the
\* keys of contextVars become global lexical declarations
ScopedDeclarationsGlobal(lex, contextVars) ==
  [n \in DOMAIN lex \cup {key \in Keys : contextVars[key] # Absent} |->
     IF n \in DOMAIN lex THEN lex[n] ELSE contextVars[n]]

\* what the text of scopedEval declares in the context: nothing, its
\* const is inside the block of the arrow function
ScopedDeclarations(lex, contextVars) == lex

\* VMManager.scopedEval (vm.ts:123-144) on a ready manager
ScopedEvalCode(code, contextVars, pad) ==
  /\ runs < MaxRuns
  /\ RequireVMOk /\ RequireMarshallerVM
  /\ \E r \in {scopedEvalBody(S, lexicals, globalProps, code, contextVars, pad,
                              ContextObj(runs + 1))} :
        /\ Commit(r.s)
        /\ lexicals' = ScopedDeclarations(lexicals, contextVars)
        /\ lastRun' = [op |-> "scopedEval", code |-> code, vars |-> contextVars, pad |-> pad,
                       ok |-> r.ok, r |-> r.v, lex |-> lexicals, glob |-> globalProps,
                       managed |-> r.s.managed]
  /\ runs' = runs + 1
  /\ UNCHANGED <<globalProps, global, globalOrigin, held, heldOrigin, lastOp, firstId,
                 written, ops, vmVars, pVars, kVars>>

\* the inputs of the evaluation model
Vars(a, b) == [key \in Keys |-> CASE key = "a" -> a [] key = "b" -> b [] OTHER -> Absent]
HostFunctionVars ==
  [key \in Keys |-> CASE key = "f" -> HObj("thrower")
                      [] key = "o" -> HObj("frozenObj")
                      [] OTHER -> Absent]
ThenVars == [key \in Keys |-> IF key = "then" THEN Num(5) ELSE Absent]
ContextVarSets ==
  {Vars(Num(3), Num(4)), Vars(Num(3), Absent), Vars(Absent, Absent), HostFunctionVars,
   ThenVars}
EvalCodes ==
  {Id("a"), Id("occ"), Add("a", "b"), Const("occ", Num(1)), Const("occ", Num(2)),
   Call("f"), TryCall("f"), SetK("o")}
ScopedCodes == {Id("a"), Add("a", "b"), Const("occ", Num(1)), Call("f"), SetK("o")}
RegisteredValues ==
  [a |-> Num(1), b |-> Num(1), f |-> HObj("thrower"), o |-> HObj("frozenObj")]

EvalInit == VMReady /\ MarshallerNew /\ SandboxNew /\ PromiseNew /\ PackagesNew

EvalNext ==
  \/ \E key \in DOMAIN RegisteredValues : RegisterVMGlobal(key, RegisteredValues[key])
  \/ \E code \in EvalCodes : EvalCode(code)
  \/ \E code \in ScopedCodes, contextVars \in ContextVarSets, pad \in TokenPads :
       ScopedEvalCode(code, contextVars, pad)

EvalSpec == EvalInit /\ [][EvalNext]_vars

\* One VMManager used, torn down and initialised again, as the VM Eval tests
\* do around every test (vm.test.ts:75-83)
ReinitCodes == {Id("a"), Id("occ"), Const("occ", Num(1)), Call("f")}

ReinitNext ==
  \/ \E key \in DOMAIN RegisteredValues : RegisterVMGlobal(key, RegisteredValues[key])
  \/ \E code \in ReinitCodes : EvalCode(code)
  \/ Teardown
  \/ InitCall
  \/ ModuleLoaded
  \/ InitContinuation

ReinitSpec == EvalInit /\ [][ReinitNext]_vars

(***************************************************************************)
(* serializeJSValue called by host code, as the marshaller's tests call it  *)
(* (part_006:61-102).                                                       *)
(***************************************************************************)
\* host code: marshaller.serializeJSValue(x)
Serialize(x) ==
  /\ ops < MaxOps
  /\ \E r \in {serializeJSValue(S, x, 0)} :
       /\ Commit(r.s)
       /\ lastOp' = [NoOp EXCEPT !.op = "serialize", !.x = x, !.ok = r.ok, !.r = r.v]
  /\ ops' = ops + 1
  /\ UNCHANGED <<global, globalOrigin, held, heldOrigin, firstId, written, vmVars, eVars,
                 pVars, kVars>>

SerializeArrays ==
  {Arr(<<HObj("hostObj"), HObj("hostObj")>>), Arr(<<HObj("hostObj"), HObj("hostObj2")>>),
   Arr(<<HObj("increment"), HObj("hostPromise"), HObj("frozenObj")>>)}

SerializeNext ==
  \/ \E x \in HostCacheable \cup SerializeArrays : Serialize(x)
  \/ \E x \in {HObj("hostObj"), HObj("increment")}, g \in Globals : Marshal(x, g)
  \/ \E g \in Globals : SandboxGetPrototypeOf(g)

SerializeSpec == MarshalInit /\ [][SerializeNext]_vars

\* the wire type that serializeJSValue gives a cached host value
WireType(x) ==
  IF TypeOf(x) = "function" THEN "function"
  ELSE IF IsThenable(x) THEN "promise" ELSE "object"

\* wire is one tagged wrapper for the host value x, and the host cache
\* holds x under the wrapper's CacheId
WrapsCached(wire, x) ==
  /\ wire.w = "tagged"
  /\ wire.type = WireType(x)
  /\ wire.id # 0
  /\ MapGet(valueCache, wire.id) = x

(***************************************************************************)
(* The operations of AbstractManager.                                       *)
(***************************************************************************)
\* AbstractManager.onGlobal (manager.ts:57-59)
onGlobal(eventName, listener) ==
  /\ managerOps < MaxManagerOps
  /\ emitter' = EmitterOn(emitter, eventName, Handler(listener, GlobalKey, 0))
  /\ registrations' = Registered(registrations, eventName, GlobalKey, listener)
  /\ managerOps' = managerOps + 1
  /\ UNCHANGED <<filteredListenersMap, nextFilter, lastEmit, sVars, vmVars, mVars, eVars, pVars>>

\* AbstractManager.on (manager.ts:49-55)
on(eventName, key, listener) ==
  IF key = GlobalKey THEN onGlobal(eventName, listener)
  ELSE /\ managerOps < MaxManagerOps
       /\ \E g \in {getFilteredListener(filteredListenersMap, nextFilter, key, listener)} :
            /\ emitter' = EmitterOn(emitter, eventName, g.filteredListener)
            /\ filteredListenersMap' = g.map
            /\ nextFilter' = g.n
       /\ registrations' = Registered(registrations, eventName, key, listener)
       /\ managerOps' = managerOps + 1
       /\ UNCHANGED <<lastEmit, sVars, vmVars, mVars, eVars, pVars>>

\* AbstractManager.offGlobal (manager.ts:76-78)
offGlobal(eventName, listener) ==
  /\ managerOps < MaxManagerOps
  /\ emitter' = EmitterOff(emitter, eventName, Handler(listener, GlobalKey, 0))
  /\ registrations' = Unregistered(registrations, eventName, GlobalKey, listener)
  /\ managerOps' = managerOps + 1
  /\ UNCHANGED <<filteredListenersMap, nextFilter, lastEmit, sVars, vmVars, mVars, eVars, pVars>>

\* AbstractManager.off (manager.ts:61-74)
off(eventName, key, listener) ==
  IF key = GlobalKey THEN offGlobal(eventName, listener)
  ELSE /\ managerOps < MaxManagerOps
       /\ LET filteredListenerMap == MapGet(filteredListenersMap, listener)
              found == filteredListenerMap # Undefined /\ key \in DOMAIN filteredListenerMap
              rest == MapDelete(filteredListenerMap, key)
          IN IF found
               THEN /\ emitter' = EmitterOff(emitter, eventName, filteredListenerMap[key])
                    /\ filteredListenersMap' =
                         IF DOMAIN rest = {} THEN MapDelete(filteredListenersMap, listener)
                         ELSE MapSet(filteredListenersMap, listener, rest)
               ELSE UNCHANGED <<emitter, filteredListenersMap>>
       /\ registrations' = Unregistered(registrations, eventName, key, listener)
       /\ managerOps' = managerOps + 1
       /\ UNCHANGED <<nextFilter, lastEmit, sVars, vmVars, mVars, eVars, pVars>>

\* the listeners that an emission of key invokes, in order: a listener
\* added by onGlobal is called with every key, a filter closure calls its
\* listener when `k === key` (manager.ts:88-92)
Invoked(handlers, key) ==
  LET hit == SelectSeq(handlers, LAMBDA h : h.n = 0 \/ h.key = key)
  IN [i \in 1..Len(hit) |-> hit[i].l]

\* AbstractManager.emit and emitGlobal (manager.ts:39-47)
emit(eventName, key) ==
  /\ lastEmit' =
       [eventName |-> eventName, key |-> key,
        calls |-> Invoked(emitter[eventName], key),
        keyed |-> [l \in ManagerListeners |-> registrations.count[eventName][key][l]],
        global |-> [l \in ManagerListeners |->
                      IF key = GlobalKey THEN 0
                      ELSE registrations.count[eventName][GlobalKey][l]],
        everKeyed |-> {l \in ManagerListeners : <<eventName, key, l>> \in registrations.ever},
        everGlobal |-> {l \in ManagerListeners :
                          <<eventName, GlobalKey, l>> \in registrations.ever}]
  /\ UNCHANGED <<emitter, filteredListenersMap, nextFilter, registrations, managerOps,
                 sVars, vmVars, mVars, eVars, pVars>>

\* AbstractManager.teardown (manager.ts:32-36)
ManagerTeardown ==
  /\ managerOps < MaxManagerOps
  /\ emitter' = [e \in ManagerEvents |-> <<>>]
  /\ filteredListenersMap' = <<>>
  /\ registrations' = [registrations EXCEPT !.count =
                         [e \in ManagerEvents |-> [k \in EventKeys |->
                            [l \in ManagerListeners |-> 0]]]]
  /\ managerOps' = managerOps + 1
  /\ UNCHANGED <<nextFilter, lastEmit, sVars, vmVars, mVars, eVars, pVars>>

ManagerInit == EvalInit

ManagerNext ==
  \/ \E e \in ManagerEvents, k \in EventKeys, l \in ManagerListeners : on(e, k, l)
  \/ \E e \in ManagerEvents, l \in ManagerListeners : onGlobal(e, l)
  \/ \E e \in ManagerEvents, k \in EventKeys, l \in ManagerListeners : off(e, k, l)
  \/ \E e \in ManagerEvents, l \in ManagerListeners : offGlobal(e, l)
  \/ \E e \in ManagerEvents, k \in EventKeys : emit(e, k)
  \/ ManagerTeardown

ManagerSpec == ManagerInit /\ [][ManagerNext]_vars

(***************************************************************************)
(* The operations of StateStore.  A subject's subscription, made by         *)
(* addSubject, writes every value of the subject, and undefined when it     *)
(* completes, into the aggregate of _changeSubject (store.ts:34-46).  The   *)
(* observable of watchAll() is _changeSubject behind debounceTime(0): its   *)
(* subscriber gets the latest aggregate when the debounce timer fires.      *)
(***************************************************************************)
\* Map.prototype.has / get / set / delete on a sequence of entries
EntryAt(entries, key) == CHOOSE i \in DOMAIN entries : entries[i].key = key
EntriesHas(entries, key) == \E i \in DOMAIN entries : entries[i].key = key
EntriesGet(entries, key) ==
  IF EntriesHas(entries, key) THEN entries[EntryAt(entries, key)].value ELSE Undefined
EntriesSet(entries, key, value) ==
  IF EntriesHas(entries, key)
    THEN [entries EXCEPT ![EntryAt(entries, key)].value = value]
    ELSE Append(entries, [key |-> key, value |-> value])
EntriesDelete(entries, key) ==
  IF EntriesHas(entries, key) THEN WithoutAt(entries, EntryAt(entries, key)) ELSE entries

\* Map.prototype.keys and Object.fromEntries
EntriesKeys(entries) == [i \in DOMAIN entries |-> entries[i].key]
FromEntries(entries) ==
  [k \in {entries[i].key : i \in DOMAIN entries} |-> EntriesGet(entries, k)]

\* StateStore.has, get, size, keys, toObject (store.ts:20-22, 70-76, 93-95, 109-111)
StoreHas(key) == EntriesHas(_data, key)
StoreGet(key) == IF StoreHas(key) THEN _data[EntryAt(_data, key)].value ELSE Undefined
StoreSize == Len(_data)
StoreKeysOf == [i \in DOMAIN _data |-> _data[i].key]
StoreToObject == FromEntries(_data)

\* the aggregate after the subjects of keys have completed, one by one
RECURSIVE Completed(_, _)
Completed(aggregate, keys) ==
  IF keys = <<>> THEN aggregate
  ELSE Completed(MapSet(aggregate, Head(keys), Undefined), Tail(keys))

\* set that does not tell the aggregate: the subject of a new key is made
\* without the subscription of addSubject
StoreSetUnsubscribed(key, value) ==
  /\ storeOps < MaxStoreOps
  /\ IF StoreHas(key)
       THEN /\ _data' = [_data EXCEPT ![EntryAt(_data, key)].value = value]
            /\ _changeSubject' = MapSet(_changeSubject, key, value)
            /\ debouncing' = TRUE
       ELSE /\ _data' = Append(_data, [key |-> key, value |-> value])
            /\ UNCHANGED <<_changeSubject, debouncing>>
  /\ plainMap' = EntriesSet(plainMap, key, value)
  /\ storeOps' = storeOps + 1
  /\ UNCHANGED <<received, gVars, vmVars, mVars, eVars, pVars>>

\* StateStore.set (store.ts:78-86), with addSubject (32-49) for a new key
StoreSet(key, value) ==
  /\ storeOps < MaxStoreOps
  /\ IF StoreHas(key)
       THEN _data' = [_data EXCEPT ![EntryAt(_data, key)].value = value]
       ELSE _data' = Append(_data, [key |-> key, value |-> value])
  /\ _changeSubject' = MapSet(_changeSubject, key, value)
  /\ debouncing' = TRUE
  /\ plainMap' = EntriesSet(plainMap, key, value)
  /\ storeOps' = storeOps + 1
  /\ UNCHANGED <<received, gVars, vmVars, mVars, eVars, pVars>>

\* delete that completes the subject and leaves it in _data
StoreDeleteCompleteOnly(key) ==
  /\ storeOps < MaxStoreOps
  /\ IF StoreHas(key)
       THEN /\ _changeSubject' = MapSet(_changeSubject, key, Undefined)
            /\ debouncing' = TRUE
       ELSE UNCHANGED <<_changeSubject, debouncing>>
  /\ UNCHANGED _data
  /\ plainMap' = EntriesDelete(plainMap, key)
  /\ storeOps' = storeOps + 1
  /\ UNCHANGED <<received, gVars, vmVars, mVars, eVars, pVars>>

\* StateStore.delete (store.ts:56-63)
StoreDelete(key) ==
  /\ storeOps < MaxStoreOps
  /\ IF StoreHas(key)
       THEN /\ _changeSubject' = MapSet(_changeSubject, key, Undefined)
            /\ debouncing' = TRUE
            /\ _data' = WithoutAt(_data, EntryAt(_data, key))
       ELSE UNCHANGED <<_changeSubject, debouncing, _data>>
  /\ plainMap' = EntriesDelete(plainMap, key)
  /\ storeOps' = storeOps + 1
  /\ UNCHANGED <<received, gVars, vmVars, mVars, eVars, pVars>>

\* StateStore.clear (store.ts:51-54), which is teardown (152-170)
StoreClear ==
  /\ storeOps < MaxStoreOps
  /\ _changeSubject' = Completed(_changeSubject, StoreKeysOf)
  /\ debouncing' = (debouncing \/ _data # <<>>)
  /\ _data' = <<>>
  /\ plainMap' = <<>>
  /\ storeOps' = storeOps + 1
  /\ UNCHANGED <<received, gVars, vmVars, mVars, eVars, pVars>>

\* the timer of debounceTime(0) in watchAll (store.ts:148-150) fires: the
\* subscriber gets the latest aggregate
DebounceFire ==
  /\ debouncing
  /\ received' = _changeSubject
  /\ debouncing' = FALSE
  /\ UNCHANGED <<_data, _changeSubject, plainMap, storeOps, gVars, vmVars, mVars, eVars, pVars>>

StoreInit == EvalInit

StoreNext ==
  \/ \E key \in StoreKeys, value \in StoreValues : StoreSet(key, value)
  \/ \E key \in StoreKeys : StoreDelete(key)
  \/ StoreClear
  \/ DebounceFire

StoreSpec == StoreInit /\ [][StoreNext]_vars

\* how many times the latest emission invoked listener l
TimesInvoked(l) == Cardinality({i \in DOMAIN lastEmit.calls : lastEmit.calls[i] = l})

(***************************************************************************)
(* Promise bridging (part_007:295-308, 499-522).  H is a host promise that  *)
(* is marshalled into the sandbox, where code attaches                       *)
(* prom.then(f, r).finally(c) to the promise made for it (part_006:189-198);*)
(* Q is a sandbox promise that is unmarshalled to the host.  The host's     *)
(* promise jobs and the engine's pending jobs are two queues: the engine's  *)
(* jobs run only inside runtime.executePendingJobs.                         *)
(***************************************************************************)
\* runtime.executePendingJobs(): the engine's jobs run until none is left.
\* "then" is the reaction of prom.then(f, r), which settles the promise that
\* finally(c) listens to; "qreact" is the reaction registered by
\* vm.resolvePromise, which calls back into the host.
RECURSIVE executePendingJobs(_, _, _, _)
executePendingJobs(jobs, cnt, p, called) ==
  IF jobs = <<>> THEN [counters |-> cnt, called |-> called]
  ELSE CASE Head(jobs) = "then" ->
              executePendingJobs(Append(Tail(jobs), "finally"),
                                 IF p.st = "fulfilled"
                                   THEN [cnt EXCEPT !.resolves = @ + 1]
                                   ELSE [cnt EXCEPT !.rejects = @ + 1],
                                 p, called)
         [] Head(jobs) = "finally" ->
              executePendingJobs(Tail(jobs), [cnt EXCEPT !.finallys = @ + 1], p, called)
         [] OTHER -> executePendingJobs(Tail(jobs), cnt, p, TRUE)

\* promise.then(reaction) on the host: the reaction is queued as a job at
\* once when the promise has settled
HostThen(p, jobs, job) == IF Settled(p) THEN Append(jobs, job) ELSE jobs

\* variant: the reaction runs whether or not the sandbox promise has settled
ResolvePromiseEager(q, jobs) == Append(jobs, "qreact")

\* vm.resolvePromise(handle) (part_007:301): the reaction is queued as an
\* engine job at once when the sandbox promise has settled
ResolvePromise(q, jobs) == IF Settled(q) THEN Append(jobs, "qreact") ELSE jobs

\* host code: marshaller.marshal(H).  __getCachedPromise makes the sandbox
\* promise and registers the host reactions on H (part_007:505-520)
MarshalPromise ==
  /\ RequireMarshallerVM
  /\ vmP.st = "none"
  /\ \E r \in {marshal(S, HObj("hostPromise"), 0)} :
        /\ r.ok
        /\ Commit(r.s)
  /\ vmP' = Pending
  /\ bridge' = [bridge EXCEPT !.ctx = marshallerVm]
  /\ hostJobs' = HostThen(hostP, hostJobs, "bridge")
  /\ UNCHANGED <<hostP, vmQ, hostQ, listening, counters, vmJobs>>
  /\ UNCHANGED <<global, globalOrigin, held, heldOrigin, lastOp, firstId, written, ops,
                 vmVars, eVars, kVars>>

\* sandbox code, called by the host with the handle: prom.then(f, r).finally(c)
Listen ==
  /\ RequireMarshallerVM
  /\ vmP.st # "none"
  /\ bridge.ctx = marshallerVm
  /\ listening = "no"
  /\ listening' = IF Settled(vmP) THEN "after" ELSE "before"
  /\ vmJobs' = IF Settled(vmP) THEN Append(vmJobs, "then") ELSE vmJobs
  /\ UNCHANGED <<hostP, vmP, vmQ, hostQ, counters, hostJobs, bridge, mVars, vmVars, eVars, kVars>>

\* host code settles H
SettleHost(st, v) ==
  /\ hostP.st = "pending"
  /\ hostP' = [st |-> st, v |-> v]
  /\ hostJobs' = IF vmP.st # "none" THEN Append(hostJobs, "bridge") ELSE hostJobs
  /\ UNCHANGED <<vmP, vmQ, hostQ, listening, counters, vmJobs, bridge, mVars, vmVars, eVars, kVars>>

\* the reaction registered on H (part_007:506-519): the result or the
\* reason is marshalled by this.marshal, i.e. into the context the Marshaller
\* holds when the reaction runs (requireVM throws when that one is not alive),
\* and vmPromise.resolve / reject is called on the promise made in the context
\* of __getCachedPromise; settling it resolves vmPromise.settled, whose
\* reaction is executePendingJobs.  Called on the promise of a disposed
\* context, resolve / reject settles nothing the model keeps.
BridgeJob ==
  /\ hostJobs # <<>> /\ Head(hostJobs) = "bridge"
  /\ IF ~RequireMarshallerVM
       THEN /\ hostJobs' = Tail(hostJobs)
            /\ UNCHANGED <<mVars, vmP, vmJobs, bridge>>
       ELSE /\ \E r \in {marshal(S, hostP.v, 0)} :
                 /\ Commit(r.s)
                 /\ bridge' = IF r.ok
                                THEN [bridge EXCEPT !.into = marshallerVm,
                                                    !.settledDead = bridge.ctx # marshallerVm]
                                ELSE bridge
                 /\ IF r.ok /\ bridge.ctx = marshallerVm
                      THEN /\ vmP' = [st |-> hostP.st, v |-> r.v]
                           /\ vmJobs' = IF listening = "before"
                                          THEN Append(vmJobs, "then") ELSE vmJobs
                           /\ hostJobs' = Append(Tail(hostJobs), "drain")
                      ELSE /\ hostJobs' = Tail(hostJobs)
                           /\ UNCHANGED <<vmP, vmJobs>>
            /\ UNCHANGED <<global, globalOrigin, held, heldOrigin, lastOp, firstId,
                           written, ops>>
  /\ UNCHANGED <<hostP, vmQ, hostQ, listening, counters, vmVars, eVars, kVars>>

\* vmPromise.settled.then(vm.runtime.executePendingJobs) (part_007:520): vm is
\* the context of __getCachedPromise, whatever became of it since
DrainJob ==
  /\ hostJobs # <<>> /\ Head(hostJobs) = "drain"
  /\ IF bridge.ctx \in rtAlive
       THEN /\ \E d \in {executePendingJobs(vmJobs, counters, vmP, FALSE)} :
                 /\ counters' = d.counters
                 /\ hostJobs' = IF d.called THEN Append(Tail(hostJobs), "qthen")
                                ELSE Tail(hostJobs)
            /\ vmJobs' = <<>>
            /\ UNCHANGED bridge
       ELSE /\ bridge' = [bridge EXCEPT !.drainedDead = TRUE]
            /\ hostJobs' = Tail(hostJobs)
            /\ UNCHANGED <<counters, vmJobs>>
  /\ UNCHANGED <<hostP, vmP, vmQ, hostQ, listening, mVars, vmVars, eVars, kVars>>

\* host code: marshaller.unmarshal(Q) (part_007:295-308): resolvePromise
\* registers the reaction on Q, then the engine's jobs are run once
UnmarshalPromise ==
  /\ RequireMarshallerVM
  /\ bridge.qCtx = marshallerVm
  /\ hostQ.st = "none"
  /\ \E r \in {unmarshal(S, VObj("vmPromise"))} :
        /\ r.ok
        /\ Commit(r.s)
  /\ hostQ' = Pending
  /\ \E d \in {executePendingJobs(ResolvePromise(vmQ, vmJobs), counters, vmP, FALSE)} :
        /\ counters' = d.counters
        /\ hostJobs' = IF d.called THEN Append(hostJobs, "qthen") ELSE hostJobs
  /\ vmJobs' = <<>>
  /\ UNCHANGED <<hostP, vmP, vmQ, listening, bridge>>
  /\ UNCHANGED <<global, globalOrigin, held, heldOrigin, lastOp, firstId, written, ops,
                 vmVars, eVars, kVars>>

\* sandbox code settles Q while the host evaluates it (vm.evalCode or
\* vm.callFunction); the reaction registered on Q becomes an engine job
SettleVm(st, v) ==
  /\ RequireMarshallerVM
  /\ bridge.qCtx = marshallerVm
  /\ vmQ.st = "pending"
  /\ vmQ' = [st |-> st, v |-> v]
  /\ vmJobs' = IF hostQ.st # "none" THEN Append(vmJobs, "qreact") ELSE vmJobs
  /\ UNCHANGED <<hostP, vmP, hostQ, listening, counters, hostJobs, bridge, mVars, vmVars,
                 eVars, kVars>>

\* the reaction of nativePromise.then (part_007:304-307): the result is
\* unmarshalled; a rejection is thrown by vm.unwrapResult as an error that
\* carries the dumped reason as its cause.  vm is the context of
\* _getVMCachedPromise: when it has been disposed since, reading the result
\* through it fails and the host promise rejects with the engine's error.
UnmarshalResultJob ==
  /\ hostJobs # <<>> /\ Head(hostJobs) = "qthen"
  /\ IF RequireMarshallerVM /\ bridge.qCtx = marshallerVm
       THEN \E r \in {unmarshal(S, vmQ.v)} :
              /\ Commit(r.s)
              /\ hostQ' = IF vmQ.st = "rejected"
                            THEN [st |-> "rejected",
                                  v |-> [t |-> "error", v |-> "QuickJSUnwrapError",
                                         cause |-> vmQ.v]]
                          ELSE IF r.ok THEN [st |-> "fulfilled", v |-> r.v]
                          ELSE [st |-> "rejected", v |-> r.v]
       ELSE /\ hostQ' = [st |-> "rejected", v |-> Error("QuickJSUseAfterFree")]
            /\ UNCHANGED <<valueCache, hostTag, cacheIdMap, hostProps, vmValueCache,
                           vmTag, vmCacheIdMap, vmProps, nextId, nextObj, callCount,
                           vmCallCount>>
  /\ hostJobs' = Tail(hostJobs)
  /\ UNCHANGED <<hostP, vmP, vmQ, listening, counters, vmJobs, bridge>>
  /\ UNCHANGED <<global, globalOrigin, held, heldOrigin, lastOp, firstId, written, ops,
                 vmVars, eVars, kVars>>

\* the values the promises of the model settle with
HostSettleValues == {Undefined, Num(6), Arr(<<Null>>), HObj("hostObj")}
VmSettleValues == {Num(6), Num(42), Arr(<<Null>>)}
Outcomes == {"fulfilled", "rejected"}

PromiseInit == VMReady /\ MarshallerNew /\ SandboxNew /\ PromiseNew /\ PackagesNew

PromiseNext ==
  \/ MarshalPromise
  \/ Listen
  \/ \E st \in Outcomes, v \in HostSettleValues : SettleHost(st, v)
  \/ BridgeJob
  \/ DrainJob
  \/ UnmarshalPromise
  \/ \E st \in Outcomes, v \in VmSettleValues : SettleVm(st, v)
  \/ UnmarshalResultJob

PromiseSpec == PromiseInit /\ [][PromiseNext]_vars

(***************************************************************************)
(* Promise bridging and awaitReady across teardown() and a later init():   *)
(* the promise actions beside the lifecycle's, from a ready manager.       *)
(***************************************************************************)
BridgeSettleValues == {Num(6)}

BridgeNext ==
  \/ MarshalPromise
  \/ Listen
  \/ \E st \in Outcomes, v \in BridgeSettleValues : SettleHost(st, v)
  \/ BridgeJob
  \/ DrainJob
  \/ UnmarshalPromise
  \/ \E st \in Outcomes : SettleVm(st, Num(6))
  \/ UnmarshalResultJob
  \/ Teardown
  \/ InitCall
  \/ ModuleLoaded
  \/ InitContinuation
  \/ \E c \in BridgeCallers : AwaitReady(c)
  \/ ThenableJob
  \/ ReactionJob
  \/ Continuation
  \/ TimerFire

BridgeSpec == MarshalInit /\ [][BridgeNext]_vars

(***************************************************************************)
(* Claims about the Marshaller, checked under MarshalSpec.                  *)
(***************************************************************************)

\* C1: a call made through the Proxy of a function (the host's increment
\* called from sandbox code, the sandbox's __increment called from host
\* code) returns to the caller, has invoked the origin exactly once with the
\* arguments of the call, and returns the origin's counter, which both sides
\* read the same.
C1_ProxyCallInvokesOnce ==
  (/\ lastOp.op \in {"sandboxCall", "hostCall"}
   /\ lastOp.origin \in {HObj("increment"), VObj("__increment")})
  => /\ lastOp.ok
     /\ lastOp.invoked = 1
     /\ lastOp.recv = lastOp.args
     /\ lastOp.r = Num(IF lastOp.origin = HObj("increment") THEN callCount
                                                           ELSE vmCallCount)

\* C2: an assignment p.k = v through the Proxy p of an extensible origin o
\* succeeds and leaves o.k holding v (v itself, or the Proxy of v when v
\* lives on the other side), and a later read of k through a Proxy of o
\* gives the value written last.
C2_SetMutatesOrigin ==
  /\ (/\ lastOp.op \in {"sandboxSet", "hostSet"}
      /\ IsExtensible(lastOp.origin))
     => /\ lastOp.ok
        /\ IF lastOp.x.t \in {"vobj", "hobj"}
             THEN /\ lastOp.r.t \in {"hproxy", "vproxy"}
                  /\ MapGet(IF lastOp.op = "sandboxSet" THEN vmValueCache ELSE valueCache,
                            lastOp.r.cid) = lastOp.x
             ELSE lastOp.r = lastOp.x
  /\ (/\ lastOp.op \in {"sandboxGet", "hostGet"}
      /\ lastOp.origin \in DOMAIN written)
     => /\ lastOp.ok
        /\ lastOp.r = written[lastOp.origin]

C4_SameCacheIdTwice ==
  (/\ lastOp.op = "marshal"
   /\ lastOp.x \in HostCacheable
   /\ lastOp.x \in DOMAIN firstId)
  => /\ lastOp.ok
     /\ lastOp.id = firstId[lastOp.x]
     /\ lastOp.cached = lastOp.x

\* C5: unmarshal(marshal(x)) returns a value deep-equal to x for a host
\* string, number, boolean, undefined, null, bigint, registered symbol,
\* Date, array or object x.
C5_RoundTripDeepEqual ==
  (/\ lastOp.op = "roundTrip"
   /\ lastOp.x \in (HostData \ {Sym("u", FALSE)})
                     \cup {HObj("hostObj"), HObj("hostObj2"), HObj("frozenObj")})
  => (lastOp.ok /\ lastOp.r = lastOp.x)

\* the calls of the marshaller that are one call of marshal, of unmarshal or
\* of a proxy trap
SingleCalls ==
  {"marshal", "unmarshal", "hostCall", "hostSet", "hostGet", "hostGetPrototypeOf",
   "sandboxCall", "sandboxSet", "sandboxGet", "sandboxGetPrototypeOf"}

\* C17: when a marshal, unmarshal or proxy-trap call has returned or thrown,
\* every engine handle created during the call has been released, except
\* the one handle that marshal returns to its caller.
C17_HandlesReleased ==
  lastOp.op \in SingleCalls => lastOp.live = lastOp.own

\* C20: a CacheId stays bound to the value it was first bound to: no call
\* changes the value that the host's cache or the sandbox's cache holds for
\* an id it already holds, whatever has been cached before (the ids drawn
\* by the generator are all different).
C20_CacheIdBoundOnce ==
  [][/\ \A c \in DOMAIN valueCache :
          c \in DOMAIN valueCache' /\ valueCache'[c] = valueCache[c]
     /\ \A c \in DOMAIN vmValueCache :
          c \in DOMAIN vmValueCache' /\ vmValueCache'[c] = vmValueCache[c]]_vars

\* C21: after a getPrototypeOf trap was forwarded for a value whose
\* prototype is the base prototype (the one whose own prototype is null),
\* the base prototype is not tagged and not registered in the cache of its
\* side: the host's for a host value, the sandbox's for a sandbox value.
C21_BasePrototypeNotCached ==
  /\ (lastOp.op = "sandboxGetPrototypeOf" /\ lastOp.ok
        /\ ProtoOf(lastOp.origin) = HObj("hObjectProto"))
       => /\ HObj("hObjectProto") \notin DOMAIN hostTag
          /\ HObj("hObjectProto") \notin DOMAIN cacheIdMap
          /\ \A c \in DOMAIN valueCache : valueCache[c] # HObj("hObjectProto")
  /\ (lastOp.op = "hostGetPrototypeOf" /\ lastOp.ok
        /\ ProtoOf(lastOp.origin) = VObj("vObjectProto"))
       => /\ VObj("vObjectProto") \notin DOMAIN vmTag
          /\ VObj("vObjectProto") \notin DOMAIN vmCacheIdMap
          /\ \A c \in DOMAIN vmValueCache : vmValueCache[c] # VObj("vObjectProto")

(***************************************************************************)
(* Claims about Proxies whose origin is gone, checked under DanglingSpec    *)
(***************************************************************************)
\* C18: a trap (get, set, apply, getPrototypeOf) invoked on a host-held
\* Proxy whose CacheId is not in the sandbox's registry fails with an error:
\* it does not return undefined, null or any other value.
C18_DanglingTrapFails ==
  (lastOp.op \in {"hostGet", "hostSet", "hostCall", "hostGetPrototypeOf"} /\ lastOp.dangling)
    => ~lastOp.ok

(***************************************************************************)
(* Claims about eval and scopedEval, checked under EvalSpec.                *)
(***************************************************************************)

C13_EvalConstDoesNotPersist ==
  /\ (/\ lastRun.op = "eval"
      /\ lastRun.code.c = "id"
      /\ lastRun.code.n \in DOMAIN lastRun.lex
      /\ lastRun.code.n \notin DOMAIN lastRun.glob)
     => ~lastRun.ok
  /\ (/\ lastRun.op = "eval"
      /\ lastRun.code.c = "const"
      /\ lastRun.code.n \in DOMAIN lastRun.lex)
     => lastRun.ok

\* the host value that name n of the last run's code stands for: a context
\* variable of scopedEval, or the origin of the Proxy that a global holds
HostTarget(n) ==
  IF lastRun.op = "scopedEval" /\ n \in Keys /\ lastRun.vars[n] # Absent
    THEN lastRun.vars[n]
  ELSE Then(Resolve(<<>>, lastRun.lex, lastRun.glob, n), LAMBDA res :
         IF res.ok /\ res.v.t = "vproxy" THEN MapGet(valueCache, res.v.cid) ELSE Undefined)

\* C19: an exception of the script makes eval or scopedEval throw to its
\* caller; an exception thrown by a host function, or by the host's handler
\* of a Proxy trap, while the script runs is an exception inside the
\* sandbox: a try/catch of the script catches it, and without one the eval
\* or scopedEval call throws.
C19_ExceptionsPropagate ==
  LET code == lastRun.code
      keys == IF lastRun.op = "scopedEval"
                THEN {key \in Keys : lastRun.vars[key] # Absent} ELSE {}
      locals == [n \in keys |-> lastRun.vars[n]]
  IN lastRun.op \in {"eval", "scopedEval"} =>
       /\ (code.c \in {"id", "add"} /\ ~Expr(locals, lastRun.lex, lastRun.glob, code).ok)
            => ~lastRun.ok
       /\ (code.c = "call" /\ HostTarget(code.n) = HObj("thrower")) => ~lastRun.ok
       /\ (code.c = "trycall" /\ HostTarget(code.n) = HObj("thrower"))
            => (lastRun.ok /\ lastRun.r = Str("caught"))
       /\ (code.c = "set" /\ HostTarget(code.n) = HObj("frozenObj")) => ~lastRun.ok

\* eval("f()") has thrown the Error of the host function behind f
C19_Witness ==
  /\ lastRun.op = "eval"
  /\ lastRun.code = Call("f")
  /\ HostTarget("f") = HObj("thrower")
  /\ ~lastRun.ok
  /\ lastRun.r = Error("Error: thrown by the host")

(***************************************************************************)
(* Claims about promise bridging, checked under PromiseSpec                 *)
(***************************************************************************)
\* the host's promise jobs of the bridge have all run
HostQuiescent == hostJobs = <<>>

\* C14: when a host promise that was marshalled into the sandbox has settled
\* and the host's promise jobs have run, the sandbox promise made for it has
\* settled the same way with the marshalled value or reason (the sandbox
\* value that unmarshals to the host's value or reason), and the
\* callbacks attached to it before (then or the rejection handler, and
\* finally) have each run exactly once, with no further host call.
C14_HostSettlementReachesSandbox ==
  (Settled(hostP) /\ vmP.st # "none" /\ listening = "before" /\ HostQuiescent) =>
    LET u == unmarshal(S, vmP.v) IN
      /\ vmP.st = hostP.st
      /\ u.ok /\ u.v = hostP.v
      /\ counters = [resolves |-> IF hostP.st = "fulfilled" THEN 1 ELSE 0,
                     rejects |-> IF hostP.st = "rejected" THEN 1 ELSE 0,
                     finallys |-> 1]

\* C15: once a sandbox promise that was unmarshalled has settled and the
\* host's promise jobs have run, the host promise made for it has fulfilled
\* with the unmarshalled result, or rejected with a reason that carries the
\* sandbox rejection reason.
C15_SandboxSettlementReachesHost ==
  (Settled(vmQ) /\ hostQ.st # "none" /\ HostQuiescent) =>
    LET u == unmarshal(S, vmQ.v) IN
      /\ hostQ.st = vmQ.st
      /\ vmQ.st = "fulfilled" => (u.ok /\ hostQ.v = u.v)
      /\ vmQ.st = "rejected" => hostQ.v.cause = vmQ.v

\* C16: a bridged promise is pending as long as its origin is pending.
C16_NeverSettlesBeforeOrigin ==
  /\ hostP.st = "pending" => ~Settled(vmP)
  /\ vmQ.st = "pending" => ~Settled(hostQ)

C16_Witness ==
  /\ vmP.st = "rejected" /\ hostP.st = "rejected"
  /\ hostQ.st = "fulfilled" /\ vmQ.st = "fulfilled"

(***************************************************************************)
(* Claims about the VMManager lifecycle, checked under VMSpec.              *)
(***************************************************************************)

ContinuationQueued(c) == \E i \in 1..Len(microtasks) : microtasks[i] = Job("cont", c)

C7_ReadyWhenContinuationRuns ==
  \A c \in Callers :
    (callers[c].st = "done" /\ ~callers[c].tornAfterCall)
      => (callers[c].sawReady /\ callers[c].sawAlive)

\* C22: the callers that were waiting on awaitReady() when readiness was
\* signalled have their promises fulfilled, and so their continuations run, in
\* the order in which they called awaitReady().
C22_ResolvedInCallOrder ==
  \A c1, c2 \in Callers :
    (/\ callers[c1].st = "done" /\ callers[c2].st = "done"
     /\ ~callers[c1].readyAtCall /\ ~callers[c2].readyAtCall
     /\ callers[c1].callNo < callers[c2].callNo)
      => callers[c1].doneNo < callers[c2].doneNo

\* C23: once teardown() has been called and the promise jobs have run, every
\* awaitReady() promise that was waiting for readiness when teardown() was
\* called has rejected, and so has every host promise made for a sandbox
\* promise that was pending when teardown() was called.
C23_TeardownRejectsPending ==
  /\ \A c \in Callers :
       (callers[c].tornWaiting /\ microtasks = <<>>) => callers[c].st = "rejected"
  /\ (bridge.tornQ /\ hostJobs = <<>>) => hostQ.st = "rejected"

\* C24: the callbacks of a promise bridge act on the sandbox in which the
\* bridge was made and on no other: the reaction registered on the host
\* promise marshals its result into no other context, it does not call
\* resolve or reject on the promise of a disposed context, and
\* executePendingJobs is not called on a disposed runtime.
C24_BridgeActsOnItsSandbox ==
  /\ bridge.into \in {0, bridge.ctx}
  /\ ~bridge.settledDead
  /\ ~bridge.drainedDead

\* C25: when a call of eval or scopedEval has ended, by returning or by
\* throwing, none of the engine handles the call created and kept (the
\* generated wrapper function, the marshalled context object, the result
\* handle) is still alive.
C25_EvalReleasesHandles ==
  lastRun.op \in {"eval", "scopedEval"} => lastRun.managed = 0

\* C26: when a dispose() call of teardown has failed, the call has still
\* attempted to dispose every resource that was held (the Marshaller's
\* sandbox, the context, the runtime) and has cleared the manager's module,
\* runtime and context references.
C26_TeardownDisposesTheRest ==
  lastTeardown.threwAt # "none"
    => /\ lastTeardown.attempted = lastTeardown.held
       /\ lastTeardown.cleared

\* C27: a function that is the value of a property of a proxied object, read
\* through the Proxy and called (p.f(...)), runs once on the origin side with
\* this bound to the origin object the property was read from: a host object
\* for a call made in the sandbox, a sandbox object for a call made by the host.
C27_MethodThisIsOrigin ==
  /\ (lastOp.op = "sandboxCallMethod" /\ lastOp.origin = HObj("hostObj"))
       => (lastOp.ok /\ lastOp.invoked = 1 /\ lastOp.that = HObj("hostObj"))
  /\ (lastOp.op = "hostCallMethod" /\ lastOp.origin = VObj("vmObj"))
       => (lastOp.ok /\ lastOp.invoked = 1 /\ lastOp.that = VObj("vmObj"))

\* a method of a host object was called from the sandbox, and a method of a
\* sandbox object from the host
C27_WitnessSandbox ==
  /\ lastOp.op = "sandboxCallMethod" /\ lastOp.origin = HObj("hostObj")
  /\ lastOp.invoked = 1 /\ lastOp.that = HObj("hostObj")

\* the receiver `thisArg` of a call, as the origin side sees it: the origin
\* object when the receiver is a Proxy of it, a Proxy of the receiver otherwise
ResolvesReceiver(that, thisArg) ==
  CASE thisArg.t = "vobj" -> that.t = "hproxy" /\ MapGet(vmValueCache, that.cid) = thisArg
    [] thisArg.t = "hobj" -> that.t = "vproxy" /\ MapGet(valueCache, that.cid) = thisArg
    [] thisArg.t = "vproxy" -> that = MapGet(valueCache, thisArg.cid)
    [] thisArg.t = "hproxy" -> that = MapGet(vmValueCache, thisArg.cid)
    [] OTHER -> that = thisArg

\* C28: a call of a function Proxy that carries no parentCacheId, made with
\* an explicit receiver (f.call(obj, ...)), runs the origin function with
\* this resolved from that receiver.  (method and __method are declared with
\* `function`; an arrow function has no this of its own.)
C28_ExplicitReceiverIsThis ==
  (/\ lastOp.op \in {"sandboxCallWith", "hostCallWith"}
   /\ lastOp.origin \in {HObj("method"), VObj("__method")}
   /\ lastOp.x.parent = 0
   /\ lastOp.thisArg # Undefined
   /\ lastOp.invoked = 1)
    => ResolvesReceiver(lastOp.that, lastOp.thisArg)

\* C29: when the apply trap or the construct trap of a function Proxy forwards
\* to a CacheId whose origin value is not callable (for apply) or not
\* constructible (for construct), the caller gets an exception: the call
\* does not return, and no origin function has run.
C29_NotCallableRaises ==
  /\ (lastOp.op \in {"sandboxCallWith", "hostCallWith"} /\ TypeOf(lastOp.target) # "function")
       => (~lastOp.ok /\ lastOp.invoked = 0)
  /\ (lastOp.op \in {"sandboxConstruct", "hostConstruct"} /\ ~IsConstructor(lastOp.target))
       => (~lastOp.ok /\ lastOp.invoked = 0)

\* an apply trap was forwarded to a CacheId bound to an object, and it threw
C29_Witness ==
  /\ lastOp.op = "hostCallWith"
  /\ TypeOf(lastOp.target) = "object"
  /\ ~lastOp.ok

\* C30: a null nested in a composite value crosses as null: marshalling a
\* host array that holds null succeeds and reads back as the same array, a
\* host-to-sandbox argument list that holds null reaches the sandbox function
\* with null at that position, and a sandbox-to-host argument list likewise.
C30_NestedNullCrosses ==
  /\ (lastOp.op = "roundTrip" /\ lastOp.x = Arr(<<Null>>))
       => (lastOp.ok /\ lastOp.r = Arr(<<Null>>))
  /\ (lastOp.op = "hostCall" /\ lastOp.origin = VObj("__increment")
                             /\ lastOp.args = <<Null>>)
       => (lastOp.ok /\ lastOp.recv = <<Null>>)
  /\ (lastOp.op = "sandboxCall" /\ lastOp.origin = HObj("increment")
                                /\ lastOp.args = <<Null>>)
       => (lastOp.ok /\ lastOp.recv = <<Null>>)

\* C31: after a frozen host value has been marshalled, no tag property has
\* been added to it, getCacheId answers the CacheId it was first cached
\* under, and the wire data of this marshal call carries that CacheId.
C31_FrozenUsesSideTable ==
  (/\ lastOp.op = "marshal"
   /\ lastOp.x = HObj("frozenObj")
   /\ lastOp.ok)
  => /\ HObj("frozenObj") \notin DOMAIN hostTag
     /\ getCacheId(S, HObj("frozenObj")) = firstId[HObj("frozenObj")]
     /\ lastOp.id = firstId[HObj("frozenObj")]

\* C32: when a host object that a sandbox global already holds (as the value
\* an earlier marshal call gave) is marshalled again, the new sandbox value
\* is the very same object as the one the global holds: sandbox code
\* comparing the two with === gets true.
C32_MarshalTwiceSameObject ==
  [][\A g \in Globals :
       (/\ lastOp'.op = "marshal" /\ lastOp'.ok
        /\ ops' = ops + 1
        /\ lastOp'.x \in {HObj("hostObj"), HObj("hostObj2"), HObj("frozenObj")}
        /\ globalOrigin[g] = lastOp'.x
        /\ global[g].t = "vproxy")
       => lastOp'.r = global[g]]_vars

\* the own enumerable string keys of a sandbox object, in its property order
OwnEnumerableKeys(obj) ==
  LET ds == SelectSeq(OwnDescriptors(S, obj), LAMBDA d : d.enumerable)
  IN [i \in DOMAIN ds |-> ds[i].key]

\* C33: Object.keys on the host Proxy of a sandbox object gives the object's
\* own enumerable string keys in the object's order, and reading each of them
\* through the Proxy gives the object's value for it, null and undefined
\* included.
C33_EnumerationMatchesOrigin ==
  (/\ lastOp.op = "hostKeys"
   /\ lastOp.origin \in {VObj("vmRecord"), VObj("vmFixed"), VObj("vmObj2")})
  => /\ lastOp.ok
     /\ lastOp.r.keys = OwnEnumerableKeys(lastOp.origin)
     /\ \A i \in DOMAIN lastOp.r.keys :
          lastOp.r.vals[i] = vmProps[lastOp.origin][lastOp.r.keys[i]]

\* C34: the host values that sandbox code holds a reference to are values
\* the host passed to it or values held in their own properties: no sandbox
\* variable ever holds the Proxy of the host's Object.prototype,
\* Function.prototype, Object or Function, none of which the host exposed.
C34_NoBuiltinReachable ==
  \A g \in Globals :
    global[g].t = "vproxy" => MapGet(valueCache, global[g].cid) \notin HostBuiltins

C36_ListenersGetTheirEmissions ==
  lastEmit.eventName # "none"
  => \A l \in ManagerListeners :
       /\ lastEmit.keyed[l] + lastEmit.global[l] >= 1
            => TimesInvoked(l) = lastEmit.keyed[l] + lastEmit.global[l]
       /\ TimesInvoked(l) > 0 => l \in lastEmit.everKeyed \cup lastEmit.everGlobal

\* C37: once every on(event, key, listener) registration has been taken
\* back with off(event, key, listener), an emission of that event and key
\* invokes the listener only through its global registrations.
C37_OffStopsInvocation ==
  \A l \in ManagerListeners :
    (/\ lastEmit.eventName # "none"
     /\ lastEmit.key # GlobalKey
     /\ l \in lastEmit.everKeyed
     /\ lastEmit.keyed[l] = 0)
    => TimesInvoked(l) = lastEmit.global[l]

\* C38: after any sequence of set, delete and clear, has, get, size, keys
\* and toObject of the store answer what a Map given the same operations
\* answers.
C38_StoreIsAMap ==
  /\ \A key \in StoreKeys :
       /\ StoreHas(key) = EntriesHas(plainMap, key)
       /\ StoreGet(key) = EntriesGet(plainMap, key)
  /\ StoreSize = Len(plainMap)
  /\ StoreKeysOf = EntriesKeys(plainMap)
  /\ StoreToObject = FromEntries(plainMap)

\* a was deleted and set again after b was added, so that b comes first; b
\* holds undefined
C38_Witness ==
  /\ storeOps = 3
  /\ StoreKeysOf = <<"b", "a">>
  /\ StoreHas("b") /\ StoreGet("b") = Undefined
  /\ StoreGet("a") = Num(2)

\* C39: the aggregate that _changeSubject holds, which is what watchAll()
\* emits, maps every key of the store to the value get(key) returns, and
\* so does the aggregate its subscriber received last, once the debounce
\* timer of the subscription has fired.
C39_AggregateFollowsStore ==
  \A key \in StoreKeys :
    StoreHas(key)
    => /\ key \in DOMAIN _changeSubject /\ _changeSubject[key] = StoreGet(key)
       /\ ~debouncing => (key \in DOMAIN received /\ received[key] = StoreGet(key))

\* b was set, deleted and set again, a was set, and the subscriber has
\* received the aggregate {a: 1, b: 2}
C39_Witness ==
  /\ storeOps = 4
  /\ ~debouncing
  /\ received = [a |-> Num(1), b |-> Num(2)]
  /\ StoreKeysOf = <<"a", "b">>

\* C40: serializing a host function, plain object or promise gives one
\* tagged wrapper that carries a CacheId under which the host cache holds
\* the value; serializing an array of such values gives one wrapper per
\* element, each with a CacheId under which the cache holds that element,
\* so that different elements have different CacheIds.
C40_SerializeCachesValues ==
  (lastOp.op = "serialize")
  => /\ lastOp.ok
     /\ lastOp.x \in HostCacheable => WrapsCached(lastOp.r, lastOp.x)
     /\ lastOp.x \in SerializeArrays
          => /\ lastOp.r.w = "array"
             /\ Len(lastOp.r.e) = Len(lastOp.x.e)
             /\ \A i \in DOMAIN lastOp.x.e : WrapsCached(lastOp.r.e[i], lastOp.x.e[i])
             /\ Cardinality({lastOp.r.e[i].id : i \in DOMAIN lastOp.r.e})
                  = Cardinality({lastOp.x.e[i] : i \in DOMAIN lastOp.x.e})

C9_NoReadyAfterTeardown == [][tornDown => ~ready']_vars

\* C10: a teardown() call made when no init has completed since construction or
\* since the previous teardown returns without throwing and leaves ready false
\* and the module, runtime and context references cleared.
C10_TeardownSafeWithoutInit ==
  (lastTeardown.outcome # "none" /\ ~lastTeardown.completedBefore)
    => (lastTeardown.outcome = "returned" /\ lastTeardown.cleared)

====
